---- MODULE Spec2Model ----
(***************************************************************************)
(* gollama-ui: the chat-streaming orchestrator (internal/handlers/chat.go), *)
(* the llama.cpp transport adapter (Client.ChatStream) and the tool        *)
(* executor (ToolExecutor.ExecuteToolCall).                                *)
(*                                                                         *)
(* Strings are sequences of tokens and Go's += is \o, so that the          *)
(* concatenation of content deltas and of argument fragments is computed.  *)
(* A tool-call arguments string is a sequence over "{", "}" and field      *)
(* tokens; ParseArgs is the json.Unmarshal of that string.                 *)
(***************************************************************************)
EXTENDS Integers, Sequences, FiniteSets, TLC

\* number of lines the inference backend sends over one conversation
MaxLines == 3

\* make(chan ChatResponse, 10)
ChanCap == 10

----------------------------------------------------------------------------
\* client.ToolCall / client.ChatMessage / client.ChatResponse

\* the zero value of client.ToolCall (a missing map key reads as this)
ZeroToolCall == [id |-> "", type |-> "", name |-> "", args |-> <<>>]

ChatMessage(role, content, toolCallId, toolCalls) ==
    [role |-> role, content |-> content, toolCallId |-> toolCallId,
     toolCalls |-> toolCalls]

ChatResponse(content, toolCalls, done, doneReason, error) ==
    [content |-> content, toolCalls |-> toolCalls, done |-> done,
     doneReason |-> doneReason, error |-> error]

\* the literal frames the handler writes itself
FailedStartFrame == ChatResponse(<<>>, <<>>, TRUE, "", "Failed to start chat")
FailedFinalFrame == ChatResponse(<<>>, <<>>, TRUE, "", "Failed to get final response")
CancelledFrame   == ChatResponse(<<>>, <<>>, TRUE, "", "context cancelled")

----------------------------------------------------------------------------
\* What the backend may send (OpenAIChatChunk.Choices[0]); finish is the
\* *string FinishReason: <<>> is nil, <<r>> points to r.

Chunk(content, toolCalls, finish) ==
    [content |-> content, toolCalls |-> toolCalls, finish |-> finish]

DeltaA     == [id |-> "a", type |-> "function", name |-> "web_search", args |-> <<"{", "q", "}">>]
DeltaAHead == [id |-> "a", type |-> "function", name |-> "web_search", args |-> <<"{">>]
DeltaFrag  == [id |-> "", type |-> "", name |-> "", args |-> <<"q", "}">>]
DeltaB     == [id |-> "b", type |-> "function", name |-> "bogus", args |-> <<"{", "}">>]
DeltaBName == [id |-> "b", type |-> "", name |-> "analyze_portfolio", args |-> <<>>]
DeltaC     == [id |-> "c", type |-> "function", name |-> "", args |-> <<"{">>]

\* the tool_calls lists of one chunk
DeltaLists ==
    { <<DeltaA>>, <<DeltaAHead>>, <<DeltaFrag>>, <<DeltaC>>,
      <<DeltaA, DeltaB>>, <<DeltaBName>> }

Contents == { <<"hi">>, <<" there">> }

FinishReasons == { "stop", "length", "tool_calls", "" }

Chunks ==
    { Chunk(c, <<>>, <<>>) : c \in Contents }
      \cup { Chunk(<<>>, tcs, <<>>) : tcs \in DeltaLists }
      \cup { Chunk(<<>>, <<>>, <<r>>) : r \in FinishReasons }
      \cup { Chunk(<<"hi">>, <<>>, <<"stop">>),
             Chunk(<<>>, <<DeltaA>>, <<"tool_calls">>) }

\* lines the scanner loop passes over without sending anything: an empty
\* line, a line without the "data: " prefix, a chunk with no choices
SkippedLines == { "empty", "no_prefix", "no_choices" }

\* the inbound request bodies
UserMsg == ChatMessage("user", <<"hi">>, "", <<>>)

Inbound ==
    [bodyOK : BOOLEAN, model : {"", "m"}, messages : { <<>>, <<UserMsg>> }]

----------------------------------------------------------------------------
VARIABLES
    pc,            \* where the handler goroutine is
    status,        \* HTTP status of the response (0: none written yet)
    inbound,       \* the decoded request body
    history,       \* req.Messages
    ctxDone,       \* ctx.Done() is ready
    chan,          \* responseChan of the round in progress
    adapter,       \* the ChatStream goroutine: "none", "running", "closed"
    linesLeft,     \* lines the backend may still send
    frames,        \* the frames written to the client
    assistantContent,
    toolCallsMap,
    finishReason,
    toolCalls,     \* the slice handed to executeAndContinue
    execIdx,       \* position of the range loop over toolCalls
    execLog,       \* the calls made to ToolExecutor.ExecuteToolCall
    streamLog,     \* the req.Messages of each call to ChatStream
    produced,      \* the events each round's adapter sent, <<round 1, round 2>>
    ended,         \* how each round ended, in order
    toolSettings,  \* the three flags of ToolSettings
    reqTools,      \* req.Tools
    outbound,      \* the calls made to the tool backends
    mu,            \* ToolSettings.mu: who holds the RWMutex
    setter,        \* the goroutine that runs ToolSettings.Set or Load
    getter,        \* the goroutine that runs ToolSettings.Get
    committed,     \* the settings as they were after each whole update
    posted,        \* the request bodies ChatStream built for the backend
    scanned,       \* the lines the goroutine took from the body, each with
                   \* the events it sent for the line
    pending,       \* the event the goroutine is about to send: <<>> or <<e>>
    peers,         \* two calls of Stream served at the same time, each with
                   \* the local variables of its own call
    ui,            \* the page: sendMessage and what it shows
    saves          \* the settings file and the calls of ToolSettings.Set
                   \* that run at the same time

vars == << pc, status, inbound, history, ctxDone, chan, adapter, linesLeft, frames,
           assistantContent, toolCallsMap, finishReason, toolCalls, execIdx,
           execLog, streamLog, produced, ended, toolSettings, reqTools,
           outbound, mu, setter, getter, committed, posted, scanned,
           pending, peers, ui, saves >>

\* the goroutines that call ToolSettings.Set at the same time
Setters == {1, 2}

\* no settings file yet and no call of Set begun
NoSaves ==
    [file |-> <<>>,
     call |-> [g \in Setters |-> [pc |-> "idle", n |-> 0, copy |-> <<>>,
                                  err |-> FALSE]]]

\* the page when it is loaded, a model selected and a message typed
NewPage ==
    [pc |-> "idle", isStreaming |-> FALSE, inputDisabled |-> FALSE,
     assistantContent |-> <<>>, textContent |-> <<>>, errorClass |-> FALSE,
     streamingClass |-> FALSE, pushed |-> FALSE, got |-> <<>>,
     logged |-> <<>>]

\* the two calls of Stream that are served at the same time
Requests == {1, 2}

\* the local variables of a call of Stream that has not read its body yet
NewRequest ==
    [pc |-> "recv", history |-> <<>>, assistantContent |-> <<>>,
     toolCallsMap |-> <<>>, finishReason |-> "", frames |-> <<>>,
     toolCalls |-> <<>>, execIdx |-> 0, execLog |-> <<>>, linesLeft |-> 0,
     streamLog |-> <<>>]

Round == Len(streamLog)

----------------------------------------------------------------------------
\* ToolExecutor.ExecuteToolCall and its handlers

FieldTokens == { "q", "t", "y", "z" }
    \* "q": "query":"x"   "t": "topic":"tech"
    \* "y": "query_type":"overview"   "z": "query_type":"bogus"

\* json.Unmarshal([]byte(arguments), &args) succeeds: an object is
\* "{" fields "}", and null leaves the map nil
ValidJSON(s) ==
    \/ s = <<"null">>
    \/ /\ Len(s) >= 2
       /\ s[1] = "{"
       /\ s[Len(s)] = "}"
       /\ \A i \in 2..(Len(s) - 1) : s[i] \in FieldTokens

ParseArgs(s) == { s[i] : i \in 2..(Len(s) - 1) }

\* what a handler returns; outbound lists the backends it called
ToolOK(text)  == [err |-> "", text |-> text, outbound |-> <<>>]
ToolErr(kind) == [err |-> kind, text |-> <<>>, outbound |-> <<>>]

\* the result of a handler that got as far as calling its backend
Called(backend, res) == [res EXCEPT !.outbound = <<backend>>]

executeWebSearch(args, upstreamOK) ==
    IF "q" \notin args THEN ToolErr("query parameter is required")
    ELSE IF ~upstreamOK THEN Called("searchClient", ToolErr("search failed"))
    ELSE Called("searchClient", ToolOK(<<"Search results for '", "x", "':">>))

\* a handler that rejects a call without a topic
executeGetNews_RequiresTopic(args, upstreamOK) ==
    IF "t" \notin args THEN ToolErr("topic parameter is required")
    ELSE IF ~upstreamOK THEN Called("newsClient", ToolErr("failed to fetch news"))
    ELSE Called("newsClient", ToolOK(<<"Latest ", "tech", " news:">>))

executeGetNews(args, upstreamOK) ==
    LET topic == IF "t" \in args THEN "tech" ELSE "world" IN
    IF ~upstreamOK THEN Called("newsClient", ToolErr("failed to fetch news"))
    ELSE Called("newsClient", ToolOK(<<"Latest ", topic, " news:">>))

executeAnalyzePortfolio(arguments, upstreamOK) ==
    IF ~ValidJSON(arguments) THEN ToolErr("invalid arguments")
    ELSE LET args == ParseArgs(arguments) IN
         IF "y" \notin args /\ "z" \notin args THEN ToolErr("query_type is required")
         ELSE IF "y" \notin args THEN ToolErr("unknown query_type")
         ELSE IF ~upstreamOK
              THEN Called("sentinelClient", ToolErr("failed to get portfolio summary"))
         ELSE Called("sentinelClient", ToolOK(<<"# Portfolio Overview">>))

\* a dispatch that refuses a tool whose flag is off
ExecuteToolCall_ChecksEnabled(name, arguments, upstreamOK) ==
    IF ~ValidJSON(arguments) THEN ToolErr("invalid arguments")
    ELSE CASE name = "web_search" ->
                IF toolSettings.EnableWebSearch
                THEN executeWebSearch(ParseArgs(arguments), upstreamOK)
                ELSE ToolErr("tool disabled")
           [] name = "get_news" ->
                IF toolSettings.EnableFeeds
                THEN executeGetNews(ParseArgs(arguments), upstreamOK)
                ELSE ToolErr("tool disabled")
           [] name = "analyze_portfolio" ->
                IF toolSettings.EnableSentinel
                THEN executeAnalyzePortfolio(arguments, upstreamOK)
                ELSE ToolErr("tool disabled")
           [] OTHER -> ToolErr("unknown tool")

\* a dispatch that looks the name up before it parses the arguments
ExecuteToolCall_NameFirst(name, arguments, upstreamOK) ==
    IF name \notin {"web_search", "get_news", "analyze_portfolio"}
    THEN ToolErr("unknown tool")
    ELSE IF ~ValidJSON(arguments) THEN ToolErr("invalid arguments")
    ELSE CASE name = "web_search" -> executeWebSearch(ParseArgs(arguments), upstreamOK)
           [] name = "get_news" -> executeGetNews(ParseArgs(arguments), upstreamOK)
           [] OTHER -> executeAnalyzePortfolio(arguments, upstreamOK)

ExecuteToolCall(name, arguments, upstreamOK) ==
    IF ~ValidJSON(arguments) THEN ToolErr("invalid arguments")
    ELSE CASE name = "web_search" -> executeWebSearch(ParseArgs(arguments), upstreamOK)
           [] name = "get_news" -> executeGetNews(ParseArgs(arguments), upstreamOK)
           [] name = "analyze_portfolio" -> executeAnalyzePortfolio(arguments, upstreamOK)
           [] OTHER -> ToolErr("unknown tool")

----------------------------------------------------------------------------
\* ToolSettings and ToolExecutor.GetAvailableTools

\* NewToolSettings before Load: every tool is disabled
NewToolSettings ==
    [EnableWebSearch |-> FALSE, EnableFeeds |-> FALSE, EnableSentinel |-> FALSE]

\* the settings a tool_settings file or a call of Set can hold
AllSettings ==
    [EnableWebSearch : BOOLEAN, EnableFeeds : BOOLEAN, EnableSentinel : BOOLEAN]

Tool(name) == [type |-> "function", name |-> name]

\* a listing that offers get_news whatever the settings say
GetAvailableTools_FeedsAlways(settings) ==
    (IF settings.EnableWebSearch THEN << Tool("web_search") >> ELSE <<>>)
    \o << Tool("get_news") >>
    \o (IF settings.EnableSentinel THEN << Tool("analyze_portfolio") >> ELSE <<>>)

GetAvailableTools(settings) ==
    (IF settings.EnableWebSearch THEN << Tool("web_search") >> ELSE <<>>)
    \o (IF settings.EnableFeeds THEN << Tool("get_news") >> ELSE <<>>)
    \o (IF settings.EnableSentinel THEN << Tool("analyze_portfolio") >> ELSE <<>>)

----------------------------------------------------------------------------
\* The tool-call accumulator of streamWithFunctionCalling

EmptyMap == [k \in {} |-> ZeroToolCall]

MapGet(m, k) == IF k \in DOMAIN m THEN m[k] ELSE ZeroToolCall

MapPut(m, k, v) == [x \in (DOMAIN m) \cup {k} |-> IF x = k THEN v ELSE m[x]]

\* a merge in which an empty name wipes the name the record had
MergeById_ErasesName(m, tc) ==
    LET existing == MapGet(m, tc.id)
        merged == [id   |-> tc.id,
                   type |-> IF tc.type # "" THEN tc.type ELSE existing.type,
                   name |-> tc.name,
                   args |-> existing.args \o tc.args]
    IN MapPut(m, tc.id, merged)

\* a merge that opens no record for a delta without a function name
MergeById_NeedsName(m, tc) ==
    IF tc.name = "" /\ tc.id \notin DOMAIN m THEN m
    ELSE MapPut(m, tc.id,
           [id   |-> tc.id,
            type |-> IF tc.type # "" THEN tc.type ELSE MapGet(m, tc.id).type,
            name |-> IF tc.name # "" THEN tc.name ELSE MapGet(m, tc.id).name,
            args |-> MapGet(m, tc.id).args \o tc.args])

\* a merge that replaces the arguments instead of appending
MergeById_Overwrites(m, tc) ==
    MapPut(m, tc.id,
           [id   |-> tc.id,
            type |-> IF tc.type # "" THEN tc.type ELSE MapGet(m, tc.id).type,
            name |-> IF tc.name # "" THEN tc.name ELSE MapGet(m, tc.id).name,
            args |-> tc.args])

\* a delta that carries an id
MergeById(m, tc) ==
    LET existing == MapGet(m, tc.id)
        merged == [id   |-> tc.id,
                   type |-> IF tc.type # "" THEN tc.type ELSE existing.type,
                   name |-> IF tc.name # "" THEN tc.name ELSE existing.name,
                   args |-> existing.args \o tc.args]
    IN MapPut(m, tc.id, merged)

\* a search that is content with any record
FragmentTargets_AnyRecord(m) == DOMAIN m

\* the records the id-less branch may pick: range over a Go map visits the
\* keys in an unspecified order and the loop breaks at the first match
FragmentTargets(m) == { k \in DOMAIN m : m[k].id # "" /\ m[k].name # "" }

\* an update that puts the fragment in front of the arguments
AppendFragment_Prepends(existing, tc) ==
    [existing EXCEPT !.args = tc.args \o @]

\* existing.Function.Arguments += tc.Function.Arguments
AppendFragment(existing, tc) == [existing EXCEPT !.args = @ \o tc.args]

\* the maps one delta may leave
AccumulateOne(m, tc) ==
    IF tc.id # "" THEN { MergeById(m, tc) }
    ELSE IF tc.args # <<>> /\ tc.name = "" THEN
        IF FragmentTargets(m) = {} THEN { m }
        ELSE { MapPut(m, m[k].id, AppendFragment(m[k], tc)) :
                   k \in FragmentTargets(m) }
    ELSE { m }

RECURSIVE Accumulate(_, _)
\* the maps the deltas of one response may leave
Accumulate(m, tcs) ==
    IF tcs = <<>> THEN { m }
    ELSE UNION { Accumulate(m1, Tail(tcs)) : m1 \in AccumulateOne(m, Head(tcs)) }

\* a filter that keeps every record
IsEligible_KeepsAll(tc) == TRUE

\* a filter that forgets the function name
IsEligible_IdOnly(tc) == tc.id # ""

IsEligible(tc) == tc.id # "" /\ tc.name # ""

EligibleKeys(m) == { k \in DOMAIN m : IsEligible(m[k]) }

\* the slices the filtering range loop may build (any visiting order)
EligibleSlices(m) ==
    LET ks == EligibleKeys(m)
        n  == Cardinality(ks)
    IN { [i \in 1..n |-> m[p[i]]] :
             p \in { q \in [1..n -> ks] : \A i, j \in 1..n : q[i] = q[j] => i = j } }

\* a test that forgets the finish reason
WantsTools_AnyReason(m, reason) == DOMAIN m # {}

\* len(toolCallsMap) > 0 && finishReason == "tool_calls"
WantsTools(m, reason) == DOMAIN m # {} /\ reason = "tool_calls"

\* a first loop that keeps the tool-call deltas to itself
ForwardsFirstRound_TextOnly(response) == response.content # <<>>

\* response.Message.Content != "" || len(response.Message.ToolCalls) > 0
ForwardsFirstRound(response) ==
    response.content # <<>> \/ response.toolCalls # <<>>

AssistantMessage(content, tcs) == ChatMessage("assistant", content, "", tcs)

\* a result that drops the error
ResultContent_DropsError(name, res) == res.text

\* result, or fmt.Sprintf("Error executing tool %s: %v", name, err)
ResultContent(name, res) ==
    IF res.err # "" THEN <<"Error executing tool ", name, ": ", res.err>>
    ELSE res.text

\* a tool message that forgets the ToolCallID
ToolMessage_NoCallId(tc, res) ==
    ChatMessage("tool", ResultContent(tc.name, res), "", <<>>)

ToolMessage(tc, res) ==
    ChatMessage("tool", ResultContent(tc.name, res), tc.id, <<>>)

\* a loop that stops one record early
AfterTool_StopsEarly(i, tcs) == IF i < Len(tcs) - 1 THEN "exec" ELSE "r2open"

\* the range loop over toolCalls, then the call to ChatStream
AfterTool(i, tcs) == IF i < Len(tcs) THEN "exec" ELSE "r2open"

----------------------------------------------------------------------------
\* Client.ChatStream: what the goroutine sends for a line

\* an event that is done only when the finish_reason has text
ChunkResponse_DoneOnText(chunk) ==
    ChatResponse(chunk.content, chunk.toolCalls,
                 chunk.finish # <<>> /\ chunk.finish # <<"">>,
                 IF chunk.finish # <<>> THEN chunk.finish[1] ELSE "", "")

ChunkResponse(chunk) ==
    ChatResponse(chunk.content, chunk.toolCalls, chunk.finish # <<>>,
                 IF chunk.finish # <<>> THEN chunk.finish[1] ELSE "", "")

DoneMarkerResponse == ChatResponse(<<>>, <<>>, TRUE, "", "")

\* a parse-error event that does not end the stream
ParseErrorResponse_NotDone ==
    ChatResponse(<<>>, <<>>, FALSE, "", "failed to parse chunk")

ParseErrorResponse == ChatResponse(<<>>, <<>>, TRUE, "", "failed to parse chunk")

ScannerErrorResponse == ChatResponse(<<>>, <<>>, TRUE, "", "scanner error")

\* a request body that carries the tool descriptors
OpenAIRequest_WithTools(model, messages, tools) ==
    [model |-> model, messages |-> messages, stream |-> TRUE, tools |-> tools]

\* openAIReq of ChatStream: model, messages and stream; req.Tools is left out
OpenAIRequest(model, messages, tools) ==
    [model |-> model, messages |-> messages, stream |-> TRUE]

\* a resumed round that gets a deadline of its own
RoundCtx_NewDeadline(done) == FALSE

\* the ctx of the second call of ChatStream and of the second loop: the
\* parameter ctx of executeAndContinue, which is the one Stream made
RoundCtx(done) == done

\* a resumed round that lists the tools again
ResumedTools_Recomputes(tools, settings) == GetAvailableTools(settings)

\* req.Tools in the second call of ChatStream: executeAndContinue passes *req
\* on as the first round left it
ResumedTools(tools, settings) == tools

\* how a done response ends a round
EndOf(response) ==
    IF response.error # "" THEN "error"
    ELSE IF response.doneReason = "" THEN "done_no_reason"
    ELSE response.doneReason

----------------------------------------------------------------------------
Init ==
    /\ pc = "recv"
    /\ status = 0
    /\ inbound = [bodyOK |-> FALSE, model |-> "", messages |-> <<>>]
    /\ history = <<>>
    /\ ctxDone = FALSE
    /\ chan = <<>>
    /\ adapter = "none"
    /\ linesLeft = MaxLines
    /\ frames = <<>>
    /\ assistantContent = <<>>
    /\ toolCallsMap = EmptyMap
    /\ finishReason = ""
    /\ toolCalls = <<>>
    /\ execIdx = 0
    /\ execLog = <<>>
    /\ streamLog = <<>>
    /\ produced = << <<>>, <<>> >>
    /\ ended = <<>>
    /\ toolSettings = NewToolSettings
    /\ reqTools = <<>>
    /\ outbound = <<>>
    /\ mu = [writer |-> FALSE, readers |-> 0]
    /\ setter = [pc |-> "idle", kind |-> "Set", val |-> NewToolSettings, n |-> 0]
    /\ getter = [pc |-> "idle", copy |-> NewToolSettings, returned |-> <<>>]
    /\ committed = { NewToolSettings }
    /\ posted = <<>>
    /\ scanned = <<>>
    /\ pending = <<>>
    /\ peers = [r \in Requests |-> NewRequest]
    /\ ui = NewPage
    /\ saves = NoSaves

\* a validation that lets an empty messages list through
IsValidRequest_AllowsNoMessages(req) == req.bodyOK /\ req.model # ""

\* the three tests of ChatHandler.Stream: the body decodes, model and
\* messages are not empty
IsValidRequest(req) == req.bodyOK /\ req.model # "" /\ req.messages # <<>>

\* ChatHandler.Stream up to the call of streamWithFunctionCalling
Stream ==
    /\ pc = "recv"
    /\ \E req \in Inbound :
         /\ inbound' = req
         /\ IF ~IsValidRequest(req)
            THEN /\ status' = 400
                 /\ pc' = "rejected"
                 /\ history' = history
            ELSE /\ status' = 200
                 /\ pc' = "start"
                 /\ history' = req.messages
    /\ UNCHANGED << saves, ui, peers, pending, scanned, posted, mu, setter, getter, committed, toolSettings, reqTools, outbound,
                    ctxDone, chan, adapter, linesLeft, frames, assistantContent,
                    toolCallsMap, finishReason, toolCalls, execIdx, execLog,
                    streamLog, produced, ended >>

\* the deadline of context.WithTimeout expires, or the client goes away
Cancel ==
    /\ pc \in {"start", "r1", "exec", "r2open", "r2"}
    /\ ~ctxDone
    /\ ctxDone' = TRUE
    /\ UNCHANGED << saves, ui, peers, pending, scanned, posted, mu, setter, getter, committed, toolSettings, reqTools, outbound,
                    pc, status, inbound, history, chan, adapter, linesLeft,
                    frames, assistantContent, toolCallsMap, finishReason,
                    toolCalls, execIdx, execLog, streamLog, produced, ended >>

\* streamWithFunctionCalling: the first call of ChatStream.  httpClient.Do
\* fails on a context that is already done, and may fail otherwise.
\* req.Tools is set before the call; ChatStream leaves it out of the body it
\* sends, so it has no part in what the backend answers.
OpenFirst ==
    /\ pc = "start"
    /\ reqTools' = GetAvailableTools(toolSettings)
    /\ streamLog' = Append(streamLog, history)
    /\ posted' = Append(posted, OpenAIRequest(inbound.model, history,
                                               GetAvailableTools(toolSettings)))
    /\ \E ok \in BOOLEAN :
         IF ok /\ ~ctxDone
         THEN /\ adapter' = "running"
              /\ chan' = <<>>
              /\ pc' = "r1"
              /\ UNCHANGED << frames, ended >>
         ELSE /\ frames' = Append(frames, FailedStartFrame)
              /\ pc' = "done"
              /\ ended' = Append(ended, "open_failed")
              /\ UNCHANGED << adapter, chan >>
    /\ UNCHANGED << saves, ui, peers, pending, scanned, mu, setter, getter, committed, toolSettings, outbound,
                    status, inbound, history, ctxDone, linesLeft, assistantContent,
                    toolCallsMap, finishReason, toolCalls, execIdx, execLog,
                    produced >>

\* case <-ctx.Done() of the first loop
CancelledFirst ==
    /\ pc = "r1"
    /\ ctxDone
    /\ frames' = Append(frames, CancelledFrame)
    /\ pc' = "done"
    /\ ended' = Append(ended, "cancelled")
    /\ UNCHANGED << saves, ui, peers, pending, scanned, posted, mu, setter, getter, committed, toolSettings, reqTools, outbound,
                    status, inbound, history, ctxDone, chan, adapter, linesLeft,
                    assistantContent, toolCallsMap, finishReason, toolCalls,
                    execIdx, execLog, streamLog, produced >>

\* the head of executeAndContinue: the assistant message is appended
EnterExecute(content, tcs) ==
    /\ toolCalls' = tcs
    /\ history' = Append(history, AssistantMessage(content, tcs))
    /\ execIdx' = 1
    /\ pc' = "exec"

\* a write that puts the frame in front of the ones already written
WriteFrame_InFront(fs, response) == <<response>> \o fs

\* fmt.Fprintf(w, "data: %s\n\n", string(data)); flusher.Flush()
WriteFrame(fs, response) == Append(fs, response)

\* case response, ok := <-stream of the first loop, ok = true
\* (json.Marshal of a ChatResponse, strings and booleans only, does not fail)
RecvFirst ==
    /\ pc = "r1"
    /\ chan # <<>>
    /\ LET response == Head(chan) IN
       /\ chan' = Tail(chan)
       /\ \E m \in Accumulate(toolCallsMap, response.toolCalls) :
            LET content == assistantContent \o response.content
                reason  == IF response.doneReason # "" THEN response.doneReason
                           ELSE finishReason
            IN /\ toolCallsMap' = m
               /\ assistantContent' = content
               /\ finishReason' = reason
               /\ frames' = IF ForwardsFirstRound(response)
                            THEN WriteFrame(frames, response) ELSE frames
               /\ IF ~response.done
                  THEN UNCHANGED << pc, history, toolCalls, execIdx, ended >>
                  ELSE /\ ended' = Append(ended, EndOf(response))
                       /\ IF WantsTools(m, reason) /\ EligibleKeys(m) # {}
                          THEN \E tcs \in EligibleSlices(m) :
                                   EnterExecute(content, tcs)
                          ELSE /\ pc' = "done"
                               /\ UNCHANGED << history, toolCalls, execIdx >>
    /\ UNCHANGED << saves, ui, peers, pending, scanned, posted, mu, setter, getter, committed, toolSettings, reqTools, outbound,
                    status, inbound, ctxDone, adapter, linesLeft, execLog,
                    streamLog, produced >>

\* case response, ok := <-stream of the first loop, ok = false
ClosedFirst ==
    /\ pc = "r1"
    /\ chan = <<>>
    /\ adapter = "closed"
    /\ ended' = Append(ended, "closed")
    /\ IF DOMAIN toolCallsMap # {} /\ EligibleKeys(toolCallsMap) # {}
       THEN \E tcs \in EligibleSlices(toolCallsMap) :
                EnterExecute(assistantContent, tcs)
       ELSE /\ pc' = "done"
            /\ UNCHANGED << history, toolCalls, execIdx >>
    /\ UNCHANGED << saves, ui, peers, pending, scanned, posted, mu, setter, getter, committed, toolSettings, reqTools, outbound,
                    status, inbound, ctxDone, chan, adapter, linesLeft, frames,
                    assistantContent, toolCallsMap, finishReason, execLog,
                    streamLog, produced >>

\* one iteration of the range loop of executeAndContinue
ExecTool ==
    /\ pc = "exec"
    /\ \E upstreamOK \in BOOLEAN :
         LET tc  == toolCalls[execIdx]
             res == ExecuteToolCall(tc.name, tc.args, upstreamOK)
         IN /\ execLog' = Append(execLog,
                   [name |-> tc.name, arguments |-> tc.args, err |-> res.err])
            /\ history' = Append(history, ToolMessage(tc, res))
            /\ outbound' = outbound \o res.outbound
    /\ pc' = AfterTool(execIdx, toolCalls)
    /\ execIdx' = execIdx + 1
    /\ UNCHANGED << saves, ui, peers, pending, scanned, posted, mu, setter, getter, committed, toolSettings, reqTools,
                    status, inbound, ctxDone, chan, adapter, linesLeft, frames,
                    assistantContent, toolCallsMap, finishReason, toolCalls,
                    streamLog, produced, ended >>

\* executeAndContinue: the second call of ChatStream
OpenSecond ==
    /\ pc = "r2open"
    /\ reqTools' = ResumedTools(reqTools, toolSettings)
    /\ streamLog' = Append(streamLog, history)
    /\ posted' = Append(posted, OpenAIRequest(inbound.model, history,
                                               ResumedTools(reqTools, toolSettings)))
    /\ \E ok \in BOOLEAN :
         IF ok /\ ~RoundCtx(ctxDone)
         THEN /\ adapter' = "running"
              /\ chan' = <<>>
              /\ pc' = "r2"
              /\ UNCHANGED << frames, ended >>
         ELSE /\ frames' = Append(frames, FailedFinalFrame)
              /\ pc' = "done"
              /\ ended' = Append(ended, "open_failed")
              /\ UNCHANGED << adapter, chan >>
    /\ UNCHANGED << saves, ui, peers, pending, scanned, mu, setter, getter, committed, toolSettings, outbound,
                    status, inbound, history, ctxDone, linesLeft, assistantContent,
                    toolCallsMap, finishReason, toolCalls, execIdx, execLog,
                    produced >>

\* case <-ctx.Done() of the second loop
CancelledSecond ==
    /\ pc = "r2"
    /\ RoundCtx(ctxDone)
    /\ frames' = Append(frames, CancelledFrame)
    /\ pc' = "done"
    /\ ended' = Append(ended, "cancelled")
    /\ UNCHANGED << saves, ui, peers, pending, scanned, posted, mu, setter, getter, committed, toolSettings, reqTools, outbound,
                    status, inbound, history, ctxDone, chan, adapter, linesLeft,
                    assistantContent, toolCallsMap, finishReason, toolCalls,
                    execIdx, execLog, streamLog, produced >>

\* case response, ok := <-stream of the second loop, ok = true
RecvSecond ==
    /\ pc = "r2"
    /\ chan # <<>>
    /\ LET response == Head(chan) IN
       /\ chan' = Tail(chan)
       /\ frames' = WriteFrame(frames, response)
       /\ IF response.done
          THEN /\ pc' = "done"
               /\ ended' = Append(ended, EndOf(response))
          ELSE UNCHANGED << pc, ended >>
    /\ UNCHANGED << saves, ui, peers, pending, scanned, posted, mu, setter, getter, committed, toolSettings, reqTools, outbound,
                    status, inbound, history, ctxDone, adapter, linesLeft,
                    assistantContent, toolCallsMap, finishReason, toolCalls,
                    execIdx, execLog, streamLog, produced >>

\* case response, ok := <-stream of the second loop, ok = false
ClosedSecond ==
    /\ pc = "r2"
    /\ chan = <<>>
    /\ adapter = "closed"
    /\ pc' = "done"
    /\ ended' = Append(ended, "closed")
    /\ UNCHANGED << saves, ui, peers, pending, scanned, posted, mu, setter, getter, committed, toolSettings, reqTools, outbound,
                    status, inbound, history, ctxDone, chan, adapter, linesLeft,
                    frames, assistantContent, toolCallsMap, finishReason,
                    toolCalls, execIdx, execLog, streamLog, produced >>

----------------------------------------------------------------------------
\* The goroutine of Client.ChatStream

\* a send that gives up on a full buffer
Send_DropsWhenFull(response, last) ==
    /\ chan' = IF Len(chan) < ChanCap THEN Append(chan, response) ELSE chan
    /\ produced' = [produced EXCEPT ![Round] = Append(@, response)]
    /\ adapter' = IF last THEN "closed" ELSE "running"

\* responseChan <- response, blocking while the buffer is full
Send(response, last) ==
    /\ Len(chan) < ChanCap
    /\ chan' = Append(chan, response)
    /\ produced' = [produced EXCEPT ![Round] = Append(@, response)]
    /\ adapter' = IF last THEN "closed" ELSE "running"

AdapterUnchanged ==
    UNCHANGED << saves, ui, peers, pending, scanned, posted, mu, setter, getter, committed, toolSettings, reqTools, outbound,
                 pc, status, inbound, history, ctxDone, frames, assistantContent,
                 toolCallsMap, finishReason, toolCalls, execIdx, execLog,
                 streamLog, ended >>

\* a "data: " line that parses and has a choice
SendChunk ==
    /\ adapter = "running"
    /\ linesLeft > 0
    /\ linesLeft' = linesLeft - 1
    /\ \E chunk \in Chunks : Send(ChunkResponse(chunk), chunk.finish # <<>>)
    /\ AdapterUnchanged

\* the line "data: [DONE]"
SendDoneMarker ==
    /\ adapter = "running"
    /\ linesLeft > 0
    /\ linesLeft' = linesLeft - 1
    /\ Send(DoneMarkerResponse, TRUE)
    /\ AdapterUnchanged

\* a "data: " line that json.Unmarshal rejects
SendParseError ==
    /\ adapter = "running"
    /\ linesLeft > 0
    /\ linesLeft' = linesLeft - 1
    /\ Send(ParseErrorResponse, TRUE)
    /\ AdapterUnchanged

\* a line the loop passes over
SkipLine ==
    /\ adapter = "running"
    /\ linesLeft > 0
    /\ \E line \in SkippedLines : linesLeft' = linesLeft - 1
    /\ UNCHANGED << chan, adapter, produced >>
    /\ AdapterUnchanged

\* scanner.Scan() returns false and scanner.Err() is nil: the backend closed
\* the body without a finish_reason or a [DONE] line
EndOfStream ==
    /\ adapter = "running"
    /\ adapter' = "closed"
    /\ UNCHANGED << chan, linesLeft, produced >>
    /\ AdapterUnchanged

\* scanner.Scan() returns false and scanner.Err() is not nil
ScannerError ==
    /\ adapter = "running"
    /\ Send(ScannerErrorResponse, TRUE)
    /\ UNCHANGED linesLeft
    /\ AdapterUnchanged

Next ==
    \/ Stream
    \/ Cancel
    \/ OpenFirst
    \/ CancelledFirst
    \/ RecvFirst
    \/ ClosedFirst
    \/ ExecTool
    \/ OpenSecond
    \/ CancelledSecond
    \/ RecvSecond
    \/ ClosedSecond
    \/ SendChunk
    \/ SendDoneMarker
    \/ SendParseError
    \/ SkipLine
    \/ EndOfStream
    \/ ScannerError

Spec == Init /\ [][Next]_vars

----------------------------------------------------------------------------
\* The accumulation loop of streamWithFunctionCalling on its own: responses
\* that carry one tool-call delta each, folded into toolCallsMap

MaxDeltas == 4

Delta(id, type, name, args) == [id |-> id, type |-> type, name |-> name, args |-> args]

AccDeltas ==
    { Delta("a", "function", "f", <<>>),
      Delta("a", "", "", <<"x">>),
      Delta("a", "tool", "k", <<"w">>),
      Delta("b", "function", "g", <<"y">>),
      Delta("b", "", "", <<>>),
      Delta("c", "function", "h", <<>>),
      Delta("", "", "", <<"x">>),
      Delta("", "", "", <<"y">>),
      Delta("", "", "", <<"z">>),
      Delta("", "function", "f", <<"x">>),
      Delta("", "", "", <<>>) }

\* one response with one tool-call delta goes through the merge
DeliverDelta ==
    /\ Len(produced[1]) < MaxDeltas
    /\ \E tc \in AccDeltas :
         /\ toolCallsMap' \in AccumulateOne(toolCallsMap, tc)
         /\ produced' = [produced EXCEPT
                ![1] = Append(@, ChatResponse(<<>>, <<tc>>, FALSE, "", ""))]
    /\ UNCHANGED << saves, ui, peers, pending, scanned, posted, mu, setter, getter, committed, pc, status, inbound, history, ctxDone, chan, adapter, linesLeft,
                    frames, assistantContent, finishReason, toolCalls, execIdx,
                    execLog, streamLog, ended, toolSettings, reqTools, outbound >>

NextAcc == DeliverDelta

SpecAcc == Init /\ [][NextAcc]_vars

----------------------------------------------------------------------------
\* The tool registry on its own: settings are changed, the enabled tools are
\* listed, tool calls are executed

MaxCalls == 1

ToolNames == { "web_search", "get_news", "analyze_portfolio", "bogus", "" }

\* argument strings: "" , objects, null, an array, truncated objects
ArgStrings ==
    { <<>>, <<"{", "}">>, <<"{", "q", "}">>, <<"{", "t", "}">>, <<"{", "y", "}">>,
      <<"{", "z", "}">>, <<"null">>, <<"[", "]">>, <<"{">>, <<"{", "q">>,
      <<"q", "}">> }

\* ToolSettings.Set
Set ==
    /\ \E s \in AllSettings : toolSettings' = s
    /\ UNCHANGED << saves, ui, peers, pending, scanned, posted, mu, setter, getter, committed, pc, status, inbound, history, ctxDone, chan, adapter, linesLeft,
                    frames, assistantContent, toolCallsMap, finishReason, toolCalls,
                    execIdx, execLog, streamLog, produced, ended, reqTools,
                    outbound >>

\* req.Tools = h.toolExecutor.GetAvailableTools()
AttachTools ==
    /\ reqTools' = GetAvailableTools(toolSettings)
    /\ UNCHANGED << saves, ui, peers, pending, scanned, posted, mu, setter, getter, committed, pc, status, inbound, history, ctxDone, chan, adapter, linesLeft,
                    frames, assistantContent, toolCallsMap, finishReason, toolCalls,
                    execIdx, execLog, streamLog, produced, ended, toolSettings,
                    outbound >>

\* h.toolExecutor.ExecuteToolCall(ctx, name, arguments)
CallTool ==
    /\ Len(execLog) < MaxCalls
    /\ \E name \in ToolNames, arguments \in ArgStrings, upstreamOK \in BOOLEAN :
         LET res == ExecuteToolCall(name, arguments, upstreamOK) IN
         /\ execLog' = Append(execLog,
                [name |-> name, arguments |-> arguments, err |-> res.err])
         /\ outbound' = outbound \o res.outbound
    /\ UNCHANGED << saves, ui, peers, pending, scanned, posted, mu, setter, getter, committed, pc, status, inbound, history, ctxDone, chan, adapter, linesLeft,
                    frames, assistantContent, toolCallsMap, finishReason, toolCalls,
                    execIdx, streamLog, produced, ended, toolSettings, reqTools >>

NextTools ==
    \/ Set
    \/ AttachTools
    \/ CallTool

SpecTools == Init /\ [][NextTools]_vars

----------------------------------------------------------------------------
\* ToolSettings under concurrency: one goroutine updates the flags (Set or
\* Load) while another takes the snapshot of Get for GetAvailableTools; each
\* field access is a step of its own

MaxWrites == 2

\* a read lock that ignores a writer
CanRLock_IgnoresWriter(m) == TRUE

\* ts.mu.RLock() returns
CanRLock(m) == ~m.writer

\* ts.mu.Lock() returns
CanLock(m) == ~m.writer /\ m.readers = 0

\* what the settings goroutines leave alone
HandlerUnchanged ==
    UNCHANGED << saves, ui, peers, pending, scanned, pc, status, inbound, history, ctxDone, chan, adapter, linesLeft,
                 frames, assistantContent, toolCallsMap, finishReason, toolCalls,
                 execIdx, execLog, streamLog, produced, ended, outbound, posted >>

\* ts.mu.Lock() of Set(webSearch, feeds, sentinel) or of Load
WriterLock ==
    /\ setter.pc = "idle"
    /\ setter.n < MaxWrites
    /\ CanLock(mu)
    /\ mu' = [mu EXCEPT !.writer = TRUE]
    /\ \E kind \in {"Set", "Load"}, s \in AllSettings :
         setter' = [pc |-> "web", kind |-> kind, val |-> s, n |-> setter.n + 1]
    /\ UNCHANGED << toolSettings, reqTools, getter, committed >>
    /\ HandlerUnchanged

\* ts.EnableWebSearch = ...
WriteWebSearch ==
    /\ setter.pc = "web"
    /\ toolSettings' = [toolSettings EXCEPT !.EnableWebSearch = setter.val.EnableWebSearch]
    /\ setter' = [setter EXCEPT !.pc = "feeds"]
    /\ UNCHANGED << mu, reqTools, getter, committed >>
    /\ HandlerUnchanged

\* ts.EnableFeeds = ...
WriteFeeds ==
    /\ setter.pc = "feeds"
    /\ toolSettings' = [toolSettings EXCEPT !.EnableFeeds = setter.val.EnableFeeds]
    /\ setter' = [setter EXCEPT !.pc = "sentinel"]
    /\ UNCHANGED << mu, reqTools, getter, committed >>
    /\ HandlerUnchanged

\* ts.EnableSentinel = ...
WriteSentinel ==
    /\ setter.pc = "sentinel"
    /\ toolSettings' = [toolSettings EXCEPT !.EnableSentinel = setter.val.EnableSentinel]
    /\ setter' = [setter EXCEPT !.pc = "unlock"]
    /\ UNCHANGED << mu, reqTools, getter, committed >>
    /\ HandlerUnchanged

\* ts.mu.Unlock(): the update is whole; Set goes on to Save, Load returns
WriterUnlock ==
    /\ setter.pc = "unlock"
    /\ mu' = [mu EXCEPT !.writer = FALSE]
    /\ committed' = committed \cup { toolSettings }
    /\ setter' = [setter EXCEPT !.pc = IF setter.kind = "Set" THEN "save" ELSE "idle"]
    /\ UNCHANGED << toolSettings, reqTools, getter >>
    /\ HandlerUnchanged

\* ts.Save() at the end of Set: copies the flags under the read lock and
\* writes them to the settings file; the flags in memory stay as they are
Save ==
    /\ setter.pc = "save"
    /\ CanRLock(mu)
    /\ setter' = [setter EXCEPT !.pc = "idle"]
    /\ UNCHANGED << mu, toolSettings, reqTools, getter, committed >>
    /\ HandlerUnchanged

\* ts.mu.RLock() of Get
GetRLock ==
    /\ getter.pc = "idle"
    /\ CanRLock(mu)
    /\ mu' = [mu EXCEPT !.readers = @ + 1]
    /\ getter' = [getter EXCEPT !.pc = "web"]
    /\ UNCHANGED << toolSettings, reqTools, setter, committed >>
    /\ HandlerUnchanged

\* EnableWebSearch: ts.EnableWebSearch
ReadWebSearch ==
    /\ getter.pc = "web"
    /\ getter' = [getter EXCEPT !.pc = "feeds",
                                !.copy.EnableWebSearch = toolSettings.EnableWebSearch]
    /\ UNCHANGED << mu, toolSettings, reqTools, setter, committed >>
    /\ HandlerUnchanged

\* EnableFeeds: ts.EnableFeeds
ReadFeeds ==
    /\ getter.pc = "feeds"
    /\ getter' = [getter EXCEPT !.pc = "sentinel",
                                !.copy.EnableFeeds = toolSettings.EnableFeeds]
    /\ UNCHANGED << mu, toolSettings, reqTools, setter, committed >>
    /\ HandlerUnchanged

\* EnableSentinel: ts.EnableSentinel
ReadSentinel ==
    /\ getter.pc = "sentinel"
    /\ getter' = [getter EXCEPT !.pc = "unlock",
                                !.copy.EnableSentinel = toolSettings.EnableSentinel]
    /\ UNCHANGED << mu, toolSettings, reqTools, setter, committed >>
    /\ HandlerUnchanged

\* the deferred ts.mu.RUnlock(); Get returns the copy and GetAvailableTools
\* builds the list from it
GetReturn ==
    /\ getter.pc = "unlock"
    /\ mu' = [mu EXCEPT !.readers = @ - 1]
    /\ getter' = [getter EXCEPT !.pc = "idle", !.returned = << getter.copy >>]
    /\ reqTools' = GetAvailableTools(getter.copy)
    /\ UNCHANGED << toolSettings, setter, committed >>
    /\ HandlerUnchanged

NextSettings ==
    \/ WriterLock
    \/ WriteWebSearch
    \/ WriteFeeds
    \/ WriteSentinel
    \/ WriterUnlock
    \/ Save
    \/ GetRLock
    \/ ReadWebSearch
    \/ ReadFeeds
    \/ ReadSentinel
    \/ GetReturn

SpecSettings == Init /\ [][NextSettings]_vars

----------------------------------------------------------------------------
\* ToolSettings.Set called by two goroutines at the same time: the flags in
\* memory, the mutex and the settings file

MaxSetCalls == 1

\* what the calls of Set leave alone
SavesUnchanged ==
    UNCHANGED << ui, peers, pending, scanned, posted, setter, getter, committed,
                 reqTools, outbound, pc, status, inbound, history, ctxDone,
                 chan, adapter, linesLeft, frames, assistantContent,
                 toolCallsMap, finishReason, toolCalls, execIdx, execLog,
                 streamLog, produced, ended >>

\* ts.mu.Lock() of Set and the three assignments under the lock
SetLock(g) ==
    /\ saves.call[g].pc = "idle"
    /\ saves.call[g].n < MaxSetCalls
    /\ CanLock(mu)
    /\ mu' = [mu EXCEPT !.writer = TRUE]
    /\ \E s \in AllSettings : toolSettings' = s
    /\ saves' = [saves EXCEPT !.call[g] = [pc |-> "unlock", n |-> @.n + 1,
                                           copy |-> <<>>, err |-> FALSE]]
    /\ SavesUnchanged

\* ts.mu.Unlock() of Set, before Save is called
SetUnlock(g) ==
    /\ saves.call[g].pc = "unlock"
    /\ mu' = [mu EXCEPT !.writer = FALSE]
    /\ saves' = [saves EXCEPT !.call[g].pc = "copy"]
    /\ UNCHANGED toolSettings
    /\ SavesUnchanged

\* Save: the copy of the three flags between RLock and RUnlock
SaveCopy(g) ==
    /\ saves.call[g].pc = "copy"
    /\ CanRLock(mu)
    /\ saves' = [saves EXCEPT !.call[g].pc = "write",
                              !.call[g].copy = << toolSettings >>]
    /\ UNCHANGED << mu, toolSettings >>
    /\ SavesUnchanged

\* Save: os.WriteFile puts the copy in the settings file; Set returns nil
SaveWrite(g) ==
    /\ saves.call[g].pc = "write"
    /\ saves' = [saves EXCEPT !.file = saves.call[g].copy,
                              !.call[g].pc = "idle"]
    /\ UNCHANGED << mu, toolSettings >>
    /\ SavesUnchanged

\* Save: os.MkdirAll or os.WriteFile fails; Set returns the error
SaveFails(g) ==
    /\ saves.call[g].pc = "write"
    /\ saves' = [saves EXCEPT !.call[g].pc = "idle", !.call[g].err = TRUE]
    /\ UNCHANGED << mu, toolSettings >>
    /\ SavesUnchanged

NextSaves ==
    \/ \E g \in Setters : SetLock(g)
    \/ \E g \in Setters : SetUnlock(g)
    \/ \E g \in Setters : SaveCopy(g)
    \/ \E g \in Setters : SaveWrite(g)
    \/ \E g \in Setters : SaveFails(g)

SpecSaves == Init /\ [][NextSaves]_vars

----------------------------------------------------------------------------
\* The handler while the settings are changed under it: the actions of Next
\* and updates of the tool settings before and during the rounds

MaxRoundLines == 2

\* the settings the updates choose from
RoundSettings ==
    { NewToolSettings,
      [EnableWebSearch |-> TRUE, EnableFeeds |-> FALSE, EnableSentinel |-> FALSE],
      [EnableWebSearch |-> TRUE, EnableFeeds |-> TRUE, EnableSentinel |-> TRUE] }

InitRounds ==
    /\ pc = "recv"
    /\ status = 0
    /\ inbound = [bodyOK |-> FALSE, model |-> "", messages |-> <<>>]
    /\ history = <<>>
    /\ ctxDone = FALSE
    /\ chan = <<>>
    /\ adapter = "none"
    /\ linesLeft = MaxRoundLines
    /\ frames = <<>>
    /\ assistantContent = <<>>
    /\ toolCallsMap = EmptyMap
    /\ finishReason = ""
    /\ toolCalls = <<>>
    /\ execIdx = 0
    /\ execLog = <<>>
    /\ streamLog = <<>>
    /\ produced = << <<>>, <<>> >>
    /\ ended = <<>>
    /\ toolSettings = NewToolSettings
    /\ reqTools = <<>>
    /\ outbound = <<>>
    /\ mu = [writer |-> FALSE, readers |-> 0]
    /\ setter = [pc |-> "idle", kind |-> "Set", val |-> NewToolSettings, n |-> 0]
    /\ getter = [pc |-> "idle", copy |-> NewToolSettings, returned |-> <<>>]
    /\ committed = { NewToolSettings }
    /\ posted = <<>>
    /\ scanned = <<>>
    /\ pending = <<>>
    /\ peers = [r \in Requests |-> NewRequest]
    /\ ui = NewPage
    /\ saves = NoSaves

\* ToolSettings.Set from the settings endpoint, before the first round,
\* while it streams or while its tools run
ChangeSettings ==
    /\ pc \in {"start", "r1", "exec"}
    /\ \E s \in RoundSettings \ { toolSettings } : toolSettings' = s
    /\ UNCHANGED << saves, ui, peers, pending, scanned, pc, status, inbound, history, ctxDone, chan, adapter, linesLeft,
                    frames, assistantContent, toolCallsMap, finishReason, toolCalls,
                    execIdx, execLog, streamLog, produced, ended, reqTools,
                    outbound, mu, setter, getter, committed, posted >>

NextRounds ==
    \/ Next
    \/ ChangeSettings

SpecRounds == InitRounds /\ [][NextRounds]_vars

----------------------------------------------------------------------------
\* The scanner loop of the goroutine, keeping for each line it takes what
\* the line was and the events sent for it

\* a line of the body: its kind and, for a chunk with a choice, the chunk
Line(kind, chunk) == [kind |-> kind, chunk |-> chunk]

NoChunk == Chunk(<<>>, <<>>, <<>>)

ScanUnchanged ==
    UNCHANGED << saves, ui, peers, pending, posted, mu, setter, getter, committed, toolSettings, reqTools,
                 outbound, pc, status, inbound, history, ctxDone, frames,
                 assistantContent, toolCallsMap, finishReason, toolCalls,
                 execIdx, execLog, streamLog, ended >>

\* a "data: " line that parses and has a choice
ScanChunk ==
    /\ adapter = "running"
    /\ linesLeft > 0
    /\ linesLeft' = linesLeft - 1
    /\ \E chunk \in Chunks :
         /\ Send(ChunkResponse(chunk), chunk.finish # <<>>)
         /\ scanned' = Append(scanned, [line |-> Line("chunk", chunk),
                                         sent |-> <<ChunkResponse(chunk)>>])
    /\ ScanUnchanged

\* the line "data: [DONE]"
ScanDoneMarker ==
    /\ adapter = "running"
    /\ linesLeft > 0
    /\ linesLeft' = linesLeft - 1
    /\ Send(DoneMarkerResponse, TRUE)
    /\ scanned' = Append(scanned, [line |-> Line("done_marker", NoChunk),
                                    sent |-> <<DoneMarkerResponse>>])
    /\ ScanUnchanged

\* a "data: " line that json.Unmarshal rejects
ScanBadJSON ==
    /\ adapter = "running"
    /\ linesLeft > 0
    /\ linesLeft' = linesLeft - 1
    /\ Send(ParseErrorResponse, TRUE)
    /\ scanned' = Append(scanned, [line |-> Line("bad_json", NoChunk),
                                    sent |-> <<ParseErrorResponse>>])
    /\ ScanUnchanged

\* a line the loop passes over
ScanSkipped ==
    /\ adapter = "running"
    /\ linesLeft > 0
    /\ linesLeft' = linesLeft - 1
    /\ \E kind \in SkippedLines :
         scanned' = Append(scanned, [line |-> Line(kind, NoChunk), sent |-> <<>>])
    /\ UNCHANGED << chan, adapter, produced >>
    /\ ScanUnchanged

\* scanner.Scan() returns false and scanner.Err() is nil
ScanEnd ==
    /\ adapter = "running"
    /\ adapter' = "closed"
    /\ UNCHANGED << chan, linesLeft, produced, scanned >>
    /\ ScanUnchanged

\* scanner.Scan() returns false and scanner.Err() is not nil
ScanFails ==
    /\ adapter = "running"
    /\ Send(ScannerErrorResponse, TRUE)
    /\ scanned' = Append(scanned, [line |-> Line("read_error", NoChunk),
                                    sent |-> <<ScannerErrorResponse>>])
    /\ UNCHANGED linesLeft
    /\ ScanUnchanged

NextScan ==
    \/ Stream
    \/ OpenFirst
    \/ ScanChunk
    \/ ScanDoneMarker
    \/ ScanBadJSON
    \/ ScanSkipped
    \/ ScanEnd
    \/ ScanFails

SpecScan == Init /\ [][NextScan]_vars

----------------------------------------------------------------------------
\* One round with a backend that sends more lines than responseChan holds,
\* so that the goroutine can run ahead of the handler until the buffer is full

MaxChanLines == 12

\* text chunks and the chunk that ends the answer
ChanChunks ==
    { Chunk(c, <<>>, <<>>) : c \in Contents } \cup { Chunk(<<>>, <<>>, <<"stop">>) }

InitChan ==
    /\ pc = "recv"
    /\ status = 0
    /\ inbound = [bodyOK |-> FALSE, model |-> "", messages |-> <<>>]
    /\ history = <<>>
    /\ ctxDone = FALSE
    /\ chan = <<>>
    /\ adapter = "none"
    /\ linesLeft = MaxChanLines
    /\ frames = <<>>
    /\ assistantContent = <<>>
    /\ toolCallsMap = EmptyMap
    /\ finishReason = ""
    /\ toolCalls = <<>>
    /\ execIdx = 0
    /\ execLog = <<>>
    /\ streamLog = <<>>
    /\ produced = << <<>>, <<>> >>
    /\ ended = <<>>
    /\ toolSettings = NewToolSettings
    /\ reqTools = <<>>
    /\ outbound = <<>>
    /\ mu = [writer |-> FALSE, readers |-> 0]
    /\ setter = [pc |-> "idle", kind |-> "Set", val |-> NewToolSettings, n |-> 0]
    /\ getter = [pc |-> "idle", copy |-> NewToolSettings, returned |-> <<>>]
    /\ committed = { NewToolSettings }
    /\ posted = <<>>
    /\ scanned = <<>>
    /\ pending = <<>>
    /\ peers = [r \in Requests |-> NewRequest]
    /\ ui = NewPage
    /\ saves = NoSaves

\* a "data: " line that parses and has a choice
SendLine ==
    /\ adapter = "running"
    /\ linesLeft > 0
    /\ linesLeft' = linesLeft - 1
    /\ \E chunk \in ChanChunks : Send(ChunkResponse(chunk), chunk.finish # <<>>)
    /\ AdapterUnchanged

NextChan ==
    \/ Stream
    \/ OpenFirst
    \/ SendLine
    \/ SendDoneMarker
    \/ EndOfStream
    \/ RecvFirst
    \/ ClosedFirst

SpecChan == InitChan /\ [][NextChan]_vars

----------------------------------------------------------------------------
\* sendMessage of the page, reading the frames of one answer

MaxPageFrames == 3

\* the frames the server may write: text, the end of the answer, and the
\* frames that carry an error
PageFrames ==
    { ChunkResponse(Chunk(<<"hi">>, <<>>, <<>>)),
      ChunkResponse(Chunk(<<"hi">>, <<>>, <<"stop">>)),
      CancelledFrame,
      FailedStartFrame }

\* the finally block
Finally(u) ==
    [u EXCEPT !.isStreaming = FALSE, !.inputDisabled = FALSE,
              !.streamingClass = FALSE, !.pc = "finished"]

\* the outer catch for an error that is not an AbortError, then finally
OuterCatch(u, message) ==
    Finally([u EXCEPT !.textContent = <<"Error: ", message>>,
                      !.errorClass = TRUE])

\* the body of the for loop for a "data: " line: JSON.parse, the throw for
\* data.error, the text, data.done, all inside try ... catch (e) that only
\* logs e
OnFrame(u, data) ==
    IF data.error # "" THEN [u EXCEPT !.logged = Append(@, data.error)]
    ELSE LET told == IF data.content # <<>>
                     THEN [u EXCEPT !.assistantContent = @ \o data.content,
                                    !.textContent = u.assistantContent \o data.content]
                     ELSE u
         IN IF data.done THEN [told EXCEPT !.pushed = TRUE, !.streamingClass = FALSE]
            ELSE told

PageUnchanged ==
    UNCHANGED << saves, peers, pending, scanned, posted, mu, setter, getter, committed,
                 toolSettings, reqTools, outbound, pc, status, inbound, history,
                 ctxDone, chan, adapter, linesLeft, frames, assistantContent,
                 toolCallsMap, finishReason, toolCalls, execIdx, execLog,
                 streamLog, produced, ended >>

\* sendMessage up to the fetch
SendMessage ==
    /\ ui.pc = "idle"
    /\ ~ui.isStreaming
    /\ ui' = [ui EXCEPT !.pc = "fetch", !.isStreaming = TRUE,
                        !.inputDisabled = TRUE, !.streamingClass = TRUE]
    /\ PageUnchanged

\* await fetch: a response, a response that is not ok, or a rejection
FetchReturns ==
    /\ ui.pc = "fetch"
    /\ \E outcome \in {"ok", "not_ok", "rejected"} :
         ui' = IF outcome = "ok" THEN [ui EXCEPT !.pc = "read"]
               ELSE IF outcome = "not_ok"
                    THEN OuterCatch(ui, "Chat request failed")
               ELSE OuterCatch(ui, "Failed to fetch")
    /\ PageUnchanged

\* the user aborts: fetch or reader.read rejects with an AbortError
AbortStream ==
    /\ ui.pc \in {"fetch", "read"}
    /\ ui' = Finally([ui EXCEPT !.textContent = <<"(Cancelled)">>])
    /\ PageUnchanged

\* reader.read gives a chunk with one whole "data: " line
ReadFrame ==
    /\ ui.pc = "read"
    /\ Len(ui.got) < MaxPageFrames
    /\ \E data \in PageFrames :
         ui' = OnFrame([ui EXCEPT !.got = Append(@, data)], data)
    /\ PageUnchanged

\* reader.read gives done: the loop ends, the empty answer is named, finally
ReadDone ==
    /\ ui.pc = "read"
    /\ ui' = Finally(IF ui.assistantContent = <<>>
                     THEN [ui EXCEPT !.textContent = <<"(No response)">>]
                     ELSE ui)
    /\ PageUnchanged

\* reader.read rejects: the connection broke
ReadRejects ==
    /\ ui.pc = "read"
    /\ ui' = OuterCatch(ui, "network error")
    /\ PageUnchanged

NextPage ==
    \/ SendMessage
    \/ FetchReturns
    \/ AbortStream
    \/ ReadFrame
    \/ ReadDone
    \/ ReadRejects

SpecPage == Init /\ [][NextPage]_vars

----------------------------------------------------------------------------
\* analyze_portfolio with query_type full_analysis: four sub-analyses, each
\* with its own calls to the portfolio service

MaxFullCalls == 1

\* the calls of SentinelClient the sub-analyses make
SentinelCalls ==
    { "GetPortfolioSummary", "GetPositions", "GetAllOpportunities",
      "GetRecommendations", "GetPortfolioRisk", "GetAllocationDeviations",
      "GetMarketContext" }

\* up[c] tells whether call c of the portfolio service succeeds
executePortfolioOverview(up) ==
    IF ~up["GetPortfolioSummary"] THEN ToolErr("failed to get portfolio summary")
    ELSE IF ~up["GetPositions"] THEN ToolErr("failed to get positions")
    ELSE ToolOK(<<"# Portfolio Overview">>)

\* recommendations that cannot be had are left out, they do not fail the
\* analysis
executeOpportunitiesAnalysis(up) ==
    IF ~up["GetAllOpportunities"] THEN ToolErr("failed to get opportunities")
    ELSE ToolOK(<<"# Trading Opportunities">>
                  \o (IF up["GetRecommendations"] THEN <<"Recommendations">>
                      ELSE <<>>))

\* deviations that cannot be had are left out
executeRiskAnalysis(up) ==
    IF ~up["GetPortfolioRisk"] THEN ToolErr("failed to get risk metrics")
    ELSE ToolOK(<<"# Risk Metrics">>
                  \o (IF up["GetAllocationDeviations"] THEN <<"Deviations">>
                      ELSE <<>>))

executeMarketContextAnalysis(up) ==
    IF ~up["GetMarketContext"] THEN ToolErr("failed to get market context")
    ELSE ToolOK(<<"# Market Context">>)

\* a section: its heading and the text of the sub-analysis, or nothing
Section(heading, res) == IF res.err = "" THEN <<heading>> \o res.text ELSE <<>>

\* a full analysis that gives up at the first sub-analysis that fails
executeFullAnalysis_GivesUp(up) ==
    IF executePortfolioOverview(up).err # "" THEN executePortfolioOverview(up)
    ELSE IF executeOpportunitiesAnalysis(up).err # ""
         THEN executeOpportunitiesAnalysis(up)
    ELSE IF executeRiskAnalysis(up).err # "" THEN executeRiskAnalysis(up)
    ELSE IF executeMarketContextAnalysis(up).err # ""
         THEN executeMarketContextAnalysis(up)
    ELSE Called("sentinelClient",
           ToolOK(<<"# Complete Portfolio Analysis">>
             \o Section("## Portfolio State", executePortfolioOverview(up))
             \o Section("## Trading Opportunities", executeOpportunitiesAnalysis(up))
             \o Section("## Risk Assessment", executeRiskAnalysis(up))
             \o Section("## Market Context", executeMarketContextAnalysis(up))))

executeFullAnalysis(up) ==
    Called("sentinelClient",
           ToolOK(<<"# Complete Portfolio Analysis">>
             \o Section("## Portfolio State", executePortfolioOverview(up))
             \o Section("## Trading Opportunities", executeOpportunitiesAnalysis(up))
             \o Section("## Risk Assessment", executeRiskAnalysis(up))
             \o Section("## Market Context", executeMarketContextAnalysis(up))))

\* the tool call the model asks for: {"query_type":"full_analysis"}
FullAnalysisCall ==
    Delta("a", "function", "analyze_portfolio", <<"{", "full_analysis", "}">>)

\* ExecuteToolCall for the call, whose arguments parse and whose query_type
\* selects executeFullAnalysis, and the loop's tool message for the result
CallFullAnalysis ==
    /\ Len(execLog) < MaxFullCalls
    /\ \E up \in [SentinelCalls -> BOOLEAN] :
         LET tc  == FullAnalysisCall
             res == executeFullAnalysis(up)
         IN /\ execLog' = Append(execLog,
                   [name |-> tc.name, arguments |-> tc.args, err |-> res.err,
                    down |-> { c \in SentinelCalls : ~up[c] }])
            /\ history' = Append(history, ToolMessage(tc, res))
            /\ outbound' = outbound \o res.outbound
    /\ UNCHANGED << saves, ui, peers, pending, scanned, posted, mu, setter, getter,
                    committed, toolSettings, reqTools, pc, status, inbound,
                    ctxDone, chan, adapter, linesLeft, frames, assistantContent,
                    toolCallsMap, finishReason, toolCalls, execIdx, streamLog,
                    produced, ended >>

NextFull == CallFullAnalysis

SpecFull == Init /\ [][NextFull]_vars

----------------------------------------------------------------------------
\* Two calls of Stream served at the same time by the one ChatHandler.  Each
\* has its own req, assistantContent, toolCallsMap and finishReason; the
\* handler's fields (client, executor, timeout) are only read

MaxPeerLines == 3

\* what tells the two conversations apart: the user's text, the text of the
\* answer, the id and the tool of the call the model asks for
UserText(r) == IF r = 1 THEN <<"one">> ELSE <<"two">>

AnswerText(r) == IF r = 1 THEN <<"uno">> ELSE <<"due">>

PeerCall(r) ==
    IF r = 1 THEN Delta("a", "function", "web_search", <<"{", "q", "}">>)
    ELSE Delta("b", "function", "get_news", <<"{", "t", "}">>)

\* what the backend may send in answer to the request of r
PeerChunks(r) ==
    { Chunk(AnswerText(r), <<>>, <<>>),
      Chunk(<<>>, <<PeerCall(r)>>, <<>>),
      Chunk(<<>>, <<>>, <<"tool_calls">>),
      Chunk(<<>>, <<>>, <<"stop">>) }

\* an accumulator that belongs to the handler and not to the call
AccumulatorOf_Shared(ps, r) == ps[1].toolCallsMap

\* toolCallsMap := make(map[string]client.ToolCall), a local of the call
AccumulatorOf(ps, r) == ps[r].toolCallsMap

\* Stream of request r, with a body that passes the checks, up to the first
\* loop
PeerStream(r) ==
    /\ peers[r].pc = "recv"
    /\ peers' = [peers EXCEPT ![r] =
          [@ EXCEPT !.pc = "r1",
                    !.history = << ChatMessage("user", UserText(r), "", <<>>) >>,
                    !.toolCallsMap = EmptyMap,
                    !.linesLeft = MaxPeerLines,
                    !.streamLog = << << ChatMessage("user", UserText(r), "", <<>>) >> >>]]

\* one iteration of the first loop of request r that receives a response
PeerRecvFirst(r) ==
    /\ peers[r].pc = "r1"
    /\ peers[r].linesLeft > 0
    /\ \E chunk \in PeerChunks(r) :
       LET me       == peers[r]
           response == ChunkResponse(chunk)
       IN \E m \in Accumulate(AccumulatorOf(peers, r), response.toolCalls) :
          LET content == me.assistantContent \o response.content
              reason  == IF response.doneReason # "" THEN response.doneReason
                         ELSE me.finishReason
              fs      == IF ForwardsFirstRound(response)
                         THEN WriteFrame(me.frames, response) ELSE me.frames
              seen    == [me EXCEPT !.toolCallsMap = m,
                                    !.assistantContent = content,
                                    !.finishReason = reason,
                                    !.frames = fs,
                                    !.linesLeft = @ - 1]
          IN IF ~response.done
             THEN peers' = [peers EXCEPT ![r] = seen]
             ELSE IF WantsTools(m, reason) /\ EligibleKeys(m) # {}
             THEN \E tcs \in EligibleSlices(m) :
                    peers' = [peers EXCEPT ![r] =
                       [seen EXCEPT !.pc = "exec",
                                    !.toolCalls = tcs,
                                    !.execIdx = 1,
                                    !.history = Append(@, AssistantMessage(content, tcs))]]
             ELSE peers' = [peers EXCEPT ![r] = [seen EXCEPT !.pc = "done"]]

\* one iteration of the range loop of executeAndContinue of request r
PeerExecTool(r) ==
    /\ peers[r].pc = "exec"
    /\ \E upstreamOK \in BOOLEAN :
         LET me  == peers[r]
             tc  == me.toolCalls[me.execIdx]
             res == ExecuteToolCall(tc.name, tc.args, upstreamOK)
         IN peers' = [peers EXCEPT ![r] =
               [me EXCEPT !.execLog = Append(@, [name |-> tc.name,
                                                 arguments |-> tc.args,
                                                 err |-> res.err]),
                          !.history = Append(@, ToolMessage(tc, res)),
                          !.pc = AfterTool(me.execIdx, me.toolCalls),
                          !.execIdx = @ + 1]]

\* the second call of ChatStream of request r and its answer
PeerResume(r) ==
    /\ peers[r].pc = "r2open"
    /\ \E chunk \in { Chunk(AnswerText(r), <<>>, <<"stop">>) } :
         peers' = [peers EXCEPT ![r] =
            [@ EXCEPT !.streamLog = Append(@, peers[r].history),
                      !.frames = WriteFrame(@, ChunkResponse(chunk)),
                      !.pc = "done"]]

PeersUnchanged ==
    UNCHANGED << saves, ui, pending, scanned, posted, mu, setter, getter, committed,
                 toolSettings, reqTools, outbound, pc, status, inbound, history,
                 ctxDone, chan, adapter, linesLeft, frames, assistantContent,
                 toolCallsMap, finishReason, toolCalls, execIdx, execLog,
                 streamLog, produced, ended >>

NextPeers ==
    \/ \E r \in Requests : PeerStream(r) /\ PeersUnchanged
    \/ \E r \in Requests : PeerRecvFirst(r) /\ PeersUnchanged
    \/ \E r \in Requests : PeerExecTool(r) /\ PeersUnchanged
    \/ \E r \in Requests : PeerResume(r) /\ PeersUnchanged

SpecPeers == Init /\ [][NextPeers]_vars

----------------------------------------------------------------------------
\* The goroutine with the read of a line and the send of its event as two
\* steps: between them it holds the event and waits for room in responseChan

MaxHeldLines == 12

\* a text chunk and the chunk that ends the answer
HeldChunks == { Chunk(<<"hi">>, <<>>, <<>>), Chunk(<<>>, <<>>, <<"stop">>) }

InitHeld ==
    /\ pc = "recv"
    /\ status = 0
    /\ inbound = [bodyOK |-> FALSE, model |-> "", messages |-> <<>>]
    /\ history = <<>>
    /\ ctxDone = FALSE
    /\ chan = <<>>
    /\ adapter = "none"
    /\ linesLeft = MaxHeldLines
    /\ frames = <<>>
    /\ assistantContent = <<>>
    /\ toolCallsMap = EmptyMap
    /\ finishReason = ""
    /\ toolCalls = <<>>
    /\ execIdx = 0
    /\ execLog = <<>>
    /\ streamLog = <<>>
    /\ produced = << <<>>, <<>> >>
    /\ ended = <<>>
    /\ toolSettings = NewToolSettings
    /\ reqTools = <<>>
    /\ outbound = <<>>
    /\ mu = [writer |-> FALSE, readers |-> 0]
    /\ setter = [pc |-> "idle", kind |-> "Set", val |-> NewToolSettings, n |-> 0]
    /\ getter = [pc |-> "idle", copy |-> NewToolSettings, returned |-> <<>>]
    /\ committed = { NewToolSettings }
    /\ posted = <<>>
    /\ scanned = <<>>
    /\ pending = <<>>
    /\ peers = [r \in Requests |-> NewRequest]
    /\ ui = NewPage
    /\ saves = NoSaves

HeldUnchanged ==
    UNCHANGED << saves, ui, peers, scanned, posted, mu, setter, getter, committed, toolSettings,
                 reqTools, outbound, pc, status, inbound, history, ctxDone,
                 frames, assistantContent, toolCallsMap, finishReason,
                 toolCalls, execIdx, execLog, streamLog, ended >>

\* scanner.Scan() gives a "data: " line that parses and has a choice
ReadLine ==
    /\ adapter = "running"
    /\ pending = <<>>
    /\ linesLeft > 0
    /\ linesLeft' = linesLeft - 1
    /\ \E chunk \in HeldChunks : pending' = <<ChunkResponse(chunk)>>
    /\ UNCHANGED << chan, adapter, produced >>
    /\ HeldUnchanged

\* scanner.Scan() returns false and scanner.Err() is not nil; a read of the
\* body fails so once the context of the request is done
ReadFails ==
    /\ adapter = "running"
    /\ pending = <<>>
    /\ pending' = <<ScannerErrorResponse>>
    /\ UNCHANGED << chan, adapter, produced, linesLeft >>
    /\ HeldUnchanged

\* scanner.Scan() returns false and scanner.Err() is nil
ReadEOF ==
    /\ adapter = "running"
    /\ pending = <<>>
    /\ adapter' = "closed"
    /\ UNCHANGED << chan, produced, linesLeft, pending >>
    /\ HeldUnchanged

\* responseChan <- event, once the buffer has room; the goroutine returns and
\* closes the channel after an event that is done
SendPending ==
    /\ adapter = "running"
    /\ pending # <<>>
    /\ Send(pending[1], pending[1].done)
    /\ pending' = <<>>
    /\ UNCHANGED linesLeft
    /\ HeldUnchanged

\* a step of the goroutine
AdapterStep == ReadLine \/ ReadFails \/ ReadEOF \/ SendPending

\* a step of the first loop
HandlerStep == RecvFirst \/ ClosedFirst \/ CancelledFirst

NextHeld ==
    \/ Stream
    \/ Cancel
    \/ OpenFirst
    \/ CancelledFirst
    \/ RecvFirst
    \/ ClosedFirst
    \/ ReadLine
    \/ ReadFails
    \/ ReadEOF
    \/ SendPending

\* a goroutine that can run does run, and so does the handler
SpecHeld ==
    InitHeld /\ [][NextHeld]_vars /\ WF_vars(AdapterStep) /\ WF_vars(HandlerStep)

----------------------------------------------------------------------------
\* The range loop of executeAndContinue with the outbound call of a tool as
\* a step of its own: the call is sent, then it returns or is aborted

\* the slices of eligible calls the loop is entered with
CallSlices ==
    { << Delta("a", "function", "web_search", <<"{", "q", "}">>) >>,
      << Delta("a", "function", "get_news", <<"{", "}">>) >>,
      << Delta("a", "function", "analyze_portfolio", <<"{", "y", "}">>) >>,
      << Delta("a", "function", "analyze_portfolio", <<"{", "z", "}">>) >>,
      << Delta("a", "function", "bogus", <<"{", "}">>) >>,
      << Delta("a", "function", "analyze_portfolio", <<"{", "y", "}">>),
         Delta("b", "function", "web_search", <<"{", "q", "}">>) >>,
      << Delta("a", "function", "get_news", <<"{", "t", "}">>),
         Delta("b", "function", "analyze_portfolio", <<"{", "y", "}">>) >>,
      << Delta("a", "function", "web_search", <<"{", "}">>),
         Delta("b", "function", "analyze_portfolio", <<"{", "z", "}">>),
         Delta("c", "function", "get_news", <<"{", "}">>) >> }

\* the backend the handler of the call sends its request to, if it gets there
BackendOf(name, arguments) == ExecuteToolCall(name, arguments, TRUE).outbound

\* a client whose request goes on when the context is cancelled
HonoursCtx_Never(backend) == FALSE

\* the request is made with http.NewRequestWithContext(ctx, ...): cancelling
\* ctx makes httpClient.Do return.  SentinelClient does so; of SearchClient
\* and NewsClient only the ctx parameter of the call is known
HonoursCtx(backend) == backend = "sentinelClient"

\* what the handler returns when its request is aborted
Aborted(backend) == Called(backend, ToolErr("context canceled"))

\* executeAndContinue is entered with a slice of eligible calls
BeginTools ==
    /\ pc = "recv"
    /\ \E tcs \in CallSlices : EnterExecute(<<>>, tcs)
    /\ UNCHANGED << saves, ui, peers, pending, scanned, posted, mu, setter, getter, committed, toolSettings, reqTools,
                    outbound, status, inbound, ctxDone, chan, adapter, linesLeft,
                    frames, assistantContent, toolCallsMap, finishReason, execLog,
                    streamLog, produced, ended >>

\* the handler of toolCalls[execIdx] returns at once or sends its request
DispatchTool ==
    /\ pc = "exec"
    /\ LET tc == toolCalls[execIdx]
           b  == BackendOf(tc.name, tc.args)
       IN IF b = <<>>
          THEN LET res == ExecuteToolCall(tc.name, tc.args, TRUE) IN
               /\ execLog' = Append(execLog,
                      [name |-> tc.name, arguments |-> tc.args, err |-> res.err])
               /\ history' = Append(history, ToolMessage(tc, res))
               /\ pc' = AfterTool(execIdx, toolCalls)
               /\ execIdx' = execIdx + 1
               /\ UNCHANGED outbound
          ELSE /\ outbound' = outbound \o b
               /\ pc' = "calling"
               /\ UNCHANGED << execLog, history, execIdx >>
    /\ UNCHANGED << saves, ui, peers, pending, scanned, posted, mu, setter, getter, committed, toolSettings, reqTools,
                    status, inbound, ctxDone, chan, adapter, linesLeft, frames,
                    assistantContent, toolCallsMap, finishReason, toolCalls,
                    streamLog, produced, ended >>

\* the deadline expires or the client goes away while the request is out
CancelInFlight ==
    /\ pc = "calling"
    /\ ~ctxDone
    /\ ctxDone' = TRUE
    /\ UNCHANGED << saves, ui, peers, pending, scanned, posted, mu, setter, getter, committed, toolSettings, reqTools,
                    outbound, pc, status, inbound, history, chan, adapter,
                    linesLeft, frames, assistantContent, toolCallsMap,
                    finishReason, toolCalls, execIdx, execLog, streamLog,
                    produced, ended >>

\* what the loop does with the handler's result
FinishTool(res) ==
    LET tc == toolCalls[execIdx] IN
    /\ execLog' = Append(execLog,
           [name |-> tc.name, arguments |-> tc.args, err |-> res.err])
    /\ history' = Append(history, ToolMessage(tc, res))
    /\ pc' = AfterTool(execIdx, toolCalls)
    /\ execIdx' = execIdx + 1
    /\ UNCHANGED << saves, ui, peers, pending, scanned, posted, mu, setter, getter, committed, toolSettings, reqTools,
                    outbound, status, inbound, ctxDone, chan, adapter, linesLeft,
                    frames, assistantContent, toolCallsMap, finishReason,
                    toolCalls, streamLog, produced, ended >>

\* the backend answers, or fails on its own
CompleteTool ==
    /\ pc = "calling"
    /\ LET tc == toolCalls[execIdx]
           b  == BackendOf(tc.name, tc.args)
       IN /\ ~(ctxDone /\ HonoursCtx(b[1]))
          /\ \E upstreamOK \in BOOLEAN :
                FinishTool(ExecuteToolCall(tc.name, tc.args, upstreamOK))

\* the request returns because ctx is done
AbortTool ==
    /\ pc = "calling"
    /\ ctxDone
    /\ LET tc == toolCalls[execIdx]
       IN FinishTool(Aborted(BackendOf(tc.name, tc.args)[1]))

NextCall ==
    \/ BeginTools
    \/ DispatchTool
    \/ CancelInFlight
    \/ CompleteTool
    \/ AbortTool
    \/ OpenSecond

SpecCall == Init /\ [][NextCall]_vars

----------------------------------------------------------------------------
\* Properties

\* a terminal frame has done=true
TerminalFrames(fs) == { i \in 1..Len(fs) : fs[i].done }

\* a record with a non-empty id and a non-empty function name
HasIdAndName(r) == r.id # "" /\ r.name # ""

NamedKeys == { k \in DOMAIN toolCallsMap : HasIdAndName(toolCallsMap[k]) }

RECURSIVE ContentOf(_)
\* the content of a sequence of events, concatenated in arrival order
ContentOf(evs) ==
    IF evs = <<>> THEN <<>> ELSE Head(evs).content \o ContentOf(Tail(evs))

\* the first round is over
PastFirstRound == pc \in {"exec", "r2open", "r2", "done"}

\* C1: whichever way the conversation of a validated request ends, the frames
\* written to the client end with exactly one terminal frame (done=true) and
\* nothing is written after it.
C1_OneTerminalFrame ==
    pc = "done" =>
        /\ frames # <<>>
        /\ TerminalFrames(frames) = { Len(frames) }

\* C2: a first round of ContentDelta events followed by a Completion(stop)
\* without content gives the client one non-terminal frame per ContentDelta,
\* in order and with the same text, then one terminal frame with done=true
\* and done_reason="stop".
C2_ContentThenStop ==
    LET evs == produced[1]
        n   == Len(evs)
    IN (/\ pc = "done"
        /\ ~ctxDone
        /\ ended = <<"stop">>
        /\ n >= 1
        /\ evs[n] = ChatResponse(<<>>, <<>>, TRUE, "stop", "")
        /\ \A i \in 1..(n - 1) :
              /\ ~evs[i].done
              /\ evs[i].content # <<>>
              /\ evs[i].toolCalls = <<>>)
       => /\ Len(frames) = n
          /\ \A i \in 1..(n - 1) :
                ~frames[i].done /\ frames[i].content = evs[i].content
          /\ frames[n].done
          /\ frames[n].doneReason = "stop"

\* C3: an Error event of the adapter, in the first round or in a resumed one,
\* gives the client exactly one terminal frame, carrying that error, and the
\* orchestrator then calls neither the adapter nor the tool executor again.
C3_ErrorSurfacesOnce ==
    (ended # <<>> /\ ended[Len(ended)] = "error") =>
        LET evs == produced[Len(ended)] IN
        /\ pc = "done"
        /\ frames # <<>>
        /\ TerminalFrames(frames) = { Len(frames) }
        /\ frames[Len(frames)].error = evs[Len(evs)].error

\* C4: when the cancellation signal is ready while the orchestrator waits on
\* adapter events (or is already ready when streaming starts), the
\* conversation ends with exactly one terminal frame, carrying an error
\* indicator, whichever ready case the select takes.
C4_CancelWhileWaiting ==
    [][ (pc \in {"start", "r1", "r2"} /\ ctxDone /\ pc' = "done") =>
            /\ frames' # <<>>
            /\ TerminalFrames(frames') = { Len(frames') }
            /\ frames'[Len(frames')].error # "" ]_vars

\* C5: the round started after tool execution is a full Generating round: when
\* it delivers a tool-call record with id and name and ends with
\* Completion(tool_calls), its deltas are accumulated and the orchestrator
\* executes the tools again instead of finishing.
C5_ResumedRoundGenerates ==
    (/\ Len(ended) = 2
     /\ ended[2] = "tool_calls"
     /\ \E i \in 1..Len(produced[2]) : \E j \in 1..Len(produced[2][i].toolCalls) :
            HasIdAndName(produced[2][i].toolCalls[j]))
    => /\ pc = "exec"
       /\ \E i \in 1..Len(produced[2]) : \E j \in 1..Len(produced[2][i].toolCalls) :
              produced[2][i].toolCalls[j].id \in DOMAIN toolCallsMap

\* the calls of the executor made for the record stored under key k
Executions(k) ==
    { i \in 1..Len(execLog) :
        /\ toolCalls[i].id = toolCallsMap[k].id
        /\ execLog[i].name = toolCallsMap[k].name
        /\ execLog[i].arguments = toolCallsMap[k].args }

\* C6: after a round that ended with Completion(tool_calls) with n >= 1
\* eligible records, the executor is called at most once for each record,
\* exactly once for each of the n before the adapter is invoked for the next
\* round, and the next round is invoked.
C6_EachToolOnceBeforeResume ==
    (PastFirstRound /\ finishReason = "tool_calls" /\ NamedKeys # {}) =>
        /\ Len(execLog) <= Cardinality(NamedKeys)
        /\ \A k \in NamedKeys : Cardinality(Executions(k)) <= 1
        /\ Len(streamLog) >= 2 =>
              /\ Len(execLog) = Cardinality(NamedKeys)
              /\ \A k \in NamedKeys : Cardinality(Executions(k)) = 1
        /\ pc = "done" => Len(streamLog) = 2

C6_Witness ==
    /\ pc = "r2"
    /\ finishReason = "tool_calls"
    /\ Cardinality(NamedKeys) = 2
    /\ Len(execLog) = 2

\* C7: a round that ends with Completion(tool_calls) while no accumulated
\* record has both an id and a function name ends the conversation: no call
\* of the executor, no message appended to the history, no further call of
\* the adapter.
C7_NoEligibleRecordIsDone ==
    (pc # "r1" /\ finishReason = "tool_calls" /\ NamedKeys = {}) =>
        /\ pc = "done"
        /\ execLog = <<>>
        /\ history = inbound.messages
        /\ Len(streamLog) = 1

C7_Witness ==
    /\ pc = "done"
    /\ finishReason = "tool_calls"
    /\ DOMAIN toolCallsMap # {}
    /\ NamedKeys = {}

C9_HistoryAfterTools ==
    toolCalls # <<>> =>
        LET base == inbound.messages
            n    == Len(toolCalls)
            k    == Len(execLog)
        IN /\ Len(history) = Len(base) + 1 + k
           /\ SubSeq(history, 1, Len(base)) = base
           /\ history[Len(base) + 1] =
                  [role |-> "assistant", content |-> ContentOf(produced[1]),
                   toolCallId |-> "", toolCalls |-> toolCalls]
           /\ n = Cardinality(NamedKeys)
           /\ { toolCalls[i] : i \in 1..n } = { toolCallsMap[x] : x \in NamedKeys }
           /\ \A i \in 1..k :
                 /\ history[Len(base) + 1 + i].role = "tool"
                 /\ history[Len(base) + 1 + i].toolCallId = toolCalls[i].id
                 /\ history[Len(base) + 1 + i].toolCalls = <<>>
           /\ pc \in {"r2open", "r2", "done"} => k = n

C9_Witness ==
    /\ pc = "r2"
    /\ Len(toolCalls) = 2
    /\ Len(history) = Len(inbound.messages) + 3
    /\ history[Len(inbound.messages) + 1].content # <<>>
    /\ execLog[1].err # ""
    /\ execLog[2].err = ""

\* C10: a failing tool execution leaves a tool-role message for its record
\* with a non-empty formatted error as content; the remaining records are
\* still executed and the adapter is invoked for another round.
C10_FailedToolContinues ==
    /\ \A i \in 1..Len(execLog) :
          execLog[i].err # "" =>
              LET msg == history[Len(inbound.messages) + 1 + i] IN
              /\ msg.role = "tool"
              /\ msg.toolCallId = toolCalls[i].id
              /\ msg.content # <<>>
              /\ Head(msg.content) = "Error executing tool "
              /\ msg.content[Len(msg.content)] = execLog[i].err
    /\ pc = "exec" => Len(execLog) < Len(toolCalls)
    /\ (toolCalls # <<>> /\ pc \in {"r2open", "r2", "done"}) =>
           Len(execLog) = Len(toolCalls)
    /\ (toolCalls # <<>> /\ pc \in {"r2", "done"}) => Len(streamLog) = 2

C10_Witness ==
    /\ pc = "r2"
    /\ Len(execLog) = 2
    /\ execLog[1].err # ""
    /\ Len(streamLog) = 2

RECURSIVE DeltasOf(_)
\* the tool-call deltas of a sequence of events, in arrival order
DeltasOf(evs) ==
    IF evs = <<>> THEN <<>> ELSE Head(evs).toolCalls \o DeltasOf(Tail(evs))

RECURSIVE FragmentsFor(_, _)
\* the argument fragments of the deltas that carry the id, concatenated
FragmentsFor(ds, id) ==
    IF ds = <<>> THEN <<>>
    ELSE (IF Head(ds).id = id THEN Head(ds).args ELSE <<>>)
             \o FragmentsFor(Tail(ds), id)

RECURSIVE LastNameFor(_, _)
\* the last non-empty function name of the deltas that carry the id
LastNameFor(ds, id) ==
    IF ds = <<>> THEN ""
    ELSE LET d == ds[Len(ds)] IN
         IF d.id = id /\ d.name # "" THEN d.name
         ELSE LastNameFor(SubSeq(ds, 1, Len(ds) - 1), id)

\* C11: the executor is called with exactly the record's accumulated function
\* name and the concatenation of its argument fragments (one delta id "a",
\* web_search, {"query":"x"} gives one call with that name and string), and
\* the request of the next round carries the whole updated history, its last
\* message being the tool-role message of the last executed record.
C11_ExecutorInputAndResumedHistory ==
    LET ds == DeltasOf(produced[1]) IN
    /\ \A i \in 1..Len(execLog) :
          /\ execLog[i].name = toolCallsMap[toolCalls[i].id].name
          /\ execLog[i].arguments = toolCallsMap[toolCalls[i].id].args
          /\ execLog[i].name = LastNameFor(ds, toolCalls[i].id)
          /\ (\A j \in 1..Len(ds) : ds[j].id # "") =>
                execLog[i].arguments = FragmentsFor(ds, toolCalls[i].id)
    /\ Len(streamLog) >= 2 =>
          LET sent == streamLog[2]
              n    == Len(toolCalls)
          IN /\ sent = history
             /\ Len(sent) = Len(inbound.messages) + 1 + n
             /\ sent[Len(sent)].role = "tool"
             /\ sent[Len(sent)].toolCallId = toolCalls[n].id
             /\ Len(execLog) = n

C11_Witness ==
    /\ pc = "r2"
    /\ DeltasOf(produced[1]) = <<DeltaA>>
    /\ execLog = << [name |-> "web_search", arguments |-> <<"{", "q", "}">>,
                     err |-> ""] >>
    /\ streamLog[2][Len(streamLog[2])].role = "tool"
    /\ streamLog[2][Len(streamLog[2])].toolCallId = "a"

RECURSIVE FragmentsOfOnlyRecord(_, _)
\* what a record that is alone in the round collects: the fragments of the
\* deltas that carry its id and of the deltas that carry no id and no name
FragmentsOfOnlyRecord(ds, id) ==
    IF ds = <<>> THEN <<>>
    ELSE (IF Head(ds).id = id \/ (Head(ds).id = "" /\ Head(ds).name = "")
          THEN Head(ds).args ELSE <<>>)
             \o FragmentsOfOnlyRecord(Tail(ds), id)

\* C12: after a first delta that carries an id and a function name, and while
\* no other id occurs, every delta without id and name and with a non-empty
\* fragment is appended to that record in arrival order ("x", "y", "z" give
\* "xyz").
C12_FragmentsAppendInOrder ==
    LET ds == DeltasOf(produced[1]) IN
    (/\ ds # <<>>
     /\ ds[1].id # "" /\ ds[1].name # ""
     /\ \A j \in 1..Len(ds) : ds[j].id \in {"", ds[1].id})
    => /\ DOMAIN toolCallsMap = {ds[1].id}
       /\ toolCallsMap[ds[1].id].args = FragmentsOfOnlyRecord(ds, ds[1].id)

C12_Witness ==
    /\ DeltasOf(produced[1]) =
           << Delta("a", "function", "f", <<>>), Delta("", "", "", <<"x">>),
              Delta("", "", "", <<"y">>), Delta("", "", "", <<"z">>) >>
    /\ toolCallsMap["a"].args = <<"x", "y", "z">>

\* C13: when every delta of the round carries an id, there are as many
\* accumulated records as distinct ids.
C13_OneRecordPerId ==
    LET ds == DeltasOf(produced[1]) IN
    (\A j \in 1..Len(ds) : ds[j].id # "")
    => Cardinality(DOMAIN toolCallsMap)
           = Cardinality({ ds[j].id : j \in 1..Len(ds) })

C13_Witness ==
    LET ds == DeltasOf(produced[1]) IN
    /\ Len(ds) = 4
    /\ \A j \in 1..Len(ds) : ds[j].id # ""
    /\ { ds[j].id : j \in 1..Len(ds) } = {"a", "b"}
    /\ Cardinality(DOMAIN toolCallsMap) = 2

\* the messages of the history that list tool calls
CallingMessages == { i \in 1..Len(history) : history[i].toolCalls # <<>> }

\* C14: every record handed to the executor or listed in the assistant
\* message's tool_calls has a non-empty id and a non-empty function name; a
\* record that lacks either when the round ends is neither listed nor executed.
C14_OnlyCompleteRecordsRun ==
    /\ \A i \in 1..Len(toolCalls) : HasIdAndName(toolCalls[i])
    /\ \A i \in CallingMessages :
          \A j \in 1..Len(history[i].toolCalls) :
              HasIdAndName(history[i].toolCalls[j])
    /\ \A i \in 1..Len(execLog) :
          /\ execLog[i].name # ""
          /\ toolCalls[i].id # ""
          /\ toolCalls[i].name = execLog[i].name
    /\ \A i \in 1..Len(history) :
          history[i].role = "tool" => history[i].toolCallId \in NamedKeys
    /\ PastFirstRound =>
          /\ \A k \in DOMAIN toolCallsMap \ NamedKeys :
                /\ \A i \in 1..Len(toolCalls) : toolCalls[i].id # k
                /\ \A i \in 1..Len(history) : history[i].toolCallId # k
          /\ Len(toolCalls) = Cardinality(NamedKeys) \/ toolCalls = <<>>
          /\ Len(execLog) <= Cardinality(NamedKeys)

C14_Witness ==
    /\ pc = "r2"
    /\ Len(execLog) = 1
    /\ NamedKeys = {"a"}
    /\ DOMAIN toolCallsMap = {"a", "c"}
    /\ toolCallsMap["c"].name = ""

\* the ids whose record has been identified: a delta carried the id with a name
Identified(ds) == { ds[j].id : j \in { i \in 1..Len(ds) : ds[i].id # "" /\ ds[i].name # "" } }

\* the position of the delta that identified the record
IdentifiedAt(ds, k) ==
    CHOOSE j \in 1..Len(ds) :
        /\ ds[j].id = k /\ ds[j].name # ""
        /\ \A i \in 1..(j - 1) : ~(ds[i].id = k /\ ds[i].name # "")

MostRecentlyIdentified(ds) ==
    CHOOSE k \in Identified(ds) :
        \A k2 \in Identified(ds) : IdentifiedAt(ds, k2) <= IdentifiedAt(ds, k)

\* C15: when two or more records have been identified in the round, an
\* argument fragment that arrives without an id is appended to the most
\* recently identified record and to no other record.
C15_FragmentGoesToLatest ==
    [][ LET ds   == DeltasOf(produced[1])
            ds2  == DeltasOf(produced'[1])
            d    == ds2[Len(ds2)]
        IN (/\ Len(ds2) = Len(ds) + 1
            /\ d.id = "" /\ d.name = "" /\ d.args # <<>>
            /\ Cardinality(Identified(ds)) >= 2)
           => LET k == MostRecentlyIdentified(ds) IN
              toolCallsMap' = [toolCallsMap EXCEPT ![k].args = @ \o d.args]
      ]_vars

RECURSIVE IsSubseq(_, _)
\* a is b with some elements left out: same order, none repeated
IsSubseq(a, b) ==
    IF a = <<>> THEN TRUE
    ELSE IF b = <<>> THEN FALSE
    ELSE IF Head(a) = Head(b) THEN IsSubseq(Tail(a), Tail(b))
    ELSE IsSubseq(a, Tail(b))

\* the events of a round that the handler has taken from the channel
Consumed(r) ==
    IF r < Round THEN produced[r]
    ELSE IF r = Round THEN SubSeq(produced[r], 1, Len(produced[r]) - Len(chan))
    ELSE <<>>

\* the frames the handler writes itself, not copies of adapter events
HandlerFrames == { FailedStartFrame, FailedFinalFrame, CancelledFrame }

\* the frames that are copies of adapter events
ForwardedFrames ==
    IF frames # <<>> /\ frames[Len(frames)] \in HandlerFrames
    THEN SubSeq(frames, 1, Len(frames) - 1)
    ELSE frames

\* C16: frames are written in the order in which the adapter produced the
\* events, each event at most once, and every frame of the first round before
\* any frame of the second.
C16_FramesInProductionOrder ==
    LET fr == ForwardedFrames IN
    /\ \A i \in 1..Len(fr) : fr[i] \notin HandlerFrames
    /\ \E n \in 0..Len(fr) :
          /\ IsSubseq(SubSeq(fr, 1, n), Consumed(1))
          /\ IsSubseq(SubSeq(fr, n + 1, Len(fr)), Consumed(2))

C16_Witness ==
    /\ pc = "done"
    /\ Round = 2
    /\ Len(frames) = 3
    /\ Len(produced[1]) = 1 /\ Len(produced[2]) = 2
    /\ frames[1] = produced[1][1] /\ frames[1].toolCalls # <<>>
    /\ frames[2] = produced[2][1]
    /\ frames[3] = produced[2][2]
    /\ frames[2] # frames[3] /\ frames[1] # frames[2]

\* the positions of the terminating events (done=true) in a round's events
Terminating(evs) == { i \in 1..Len(evs) : evs[i].done }

\* the adapter of round r has closed its channel
AdapterClosed(r) == r < Round \/ (r = Round /\ adapter = "closed")

\* C17: whatever the backend sends on a stream that opened, closing the
\* connection without finish_reason or [DONE] included, the events the adapter
\* delivers contain exactly one terminating event and it is the last event
\* before the channel closes.
C17_ExactlyOneTerminatingEvent ==
    \A r \in 1..Round :
        (/\ AdapterClosed(r)
         /\ ~ctxDone
         /\ ~(r = Round /\ "open_failed" \in { ended[i] : i \in 1..Len(ended) }))
        => /\ Cardinality(Terminating(produced[r])) = 1
           /\ Terminating(produced[r]) = { Len(produced[r]) }

\* the positions of the error events in a round's events
Errors(evs) == { i \in 1..Len(evs) : evs[i].error # "" }

OpenFailures == { i \in 1..Len(ended) : ended[i] = "open_failed" }

Rank(name) ==
    CASE name = "web_search" -> 1
      [] name = "get_news" -> 2
      [] name = "analyze_portfolio" -> 3
      [] OTHER -> 0

\* the listing tools is exactly what the flags of settings enable
ListsEnabled(settings, tools) ==
    LET names == { tools[i].name : i \in 1..Len(tools) } IN
    /\ "web_search" \in names <=> settings.EnableWebSearch
    /\ "get_news" \in names <=> settings.EnableFeeds
    /\ "analyze_portfolio" \in names <=> settings.EnableSentinel
    /\ \A i \in 1..Len(tools) : tools[i].type = "function" /\ Rank(tools[i].name) > 0
    /\ \A i, j \in 1..Len(tools) : i < j => Rank(tools[i].name) < Rank(tools[j].name)
    /\ Len(tools) = Cardinality({ f \in {"EnableWebSearch", "EnableFeeds", "EnableSentinel"} :
                                     settings[f] })
    /\ (~settings.EnableWebSearch /\ ~settings.EnableFeeds /\ ~settings.EnableSentinel)
           => tools = <<>>

IsJSONText(s) ==
    \/ s \in { <<"null">>, <<"[", "]">> }
    \/ /\ Len(s) >= 2 /\ s[1] = "{" /\ s[Len(s)] = "}"
       /\ \A i \in 2..(Len(s) - 1) : s[i] \notin {"{", "}", "[", "]", "null"}

\* json.Unmarshal into a map accepts an object or null
ParsesIntoMap(s) == IsJSONText(s) /\ s # <<"[", "]">>

\* the calls that must fail before any handler runs
FailsEarly(i) ==
    \/ ~ParsesIntoMap(execLog[i].arguments)
    \/ execLog[i].name \notin {"web_search", "get_news", "analyze_portfolio"}

\* C20: ExecuteToolCall fails with "invalid arguments" when the arguments are
\* not valid JSON, whatever the tool name, and with "unknown tool" when they
\* parse and the name is not one of the three tools; neither case makes an
\* outbound call.
C20_ParseThenLookup ==
    /\ \A i \in 1..Len(execLog) :
          /\ ~IsJSONText(execLog[i].arguments)
                => execLog[i].err = "invalid arguments"
          /\ (/\ ParsesIntoMap(execLog[i].arguments)
              /\ execLog[i].name \notin {"web_search", "get_news", "analyze_portfolio"})
                => execLog[i].err = "unknown tool"
    /\ Len(outbound)
           <= Cardinality({ i \in 1..Len(execLog) : ~FailsEarly(i) })

C20_Witness ==
    /\ Len(execLog) = 1
    /\ execLog[1].name = "bogus"
    /\ execLog[1].arguments = <<"{", "q">>
    /\ execLog[1].err = "invalid arguments"
    /\ outbound = <<>>

\* the fields of an argument object (none for null)
FieldsOf(s) == IF s = <<"null">> THEN {} ELSE { s[i] : i \in 2..(Len(s) - 1) }

Outcome(err, calls) == [err |-> err, calls |-> calls]

\* what a call may give when the tool runs as an enabled tool does: the error
\* and the backend calls, by name and arguments alone
EnabledOutcomes(name, arguments) ==
    IF ~ParsesIntoMap(arguments) THEN { Outcome("invalid arguments", <<>>) }
    ELSE LET fs == FieldsOf(arguments) IN
         CASE name = "web_search" ->
                IF "q" \notin fs THEN { Outcome("query parameter is required", <<>>) }
                ELSE { Outcome("", <<"searchClient">>),
                       Outcome("search failed", <<"searchClient">>) }
           [] name = "get_news" ->
                { Outcome("", <<"newsClient">>),
                  Outcome("failed to fetch news", <<"newsClient">>) }
           [] name = "analyze_portfolio" ->
                IF "y" \notin fs /\ "z" \notin fs
                THEN { Outcome("query_type is required", <<>>) }
                ELSE IF "y" \notin fs THEN { Outcome("unknown query_type", <<>>) }
                ELSE { Outcome("", <<"sentinelClient">>),
                       Outcome("failed to get portfolio summary", <<"sentinelClient">>) }
           [] OTHER -> { Outcome("unknown tool", <<>>) }

\* C21: the outcome of ExecuteToolCall does not depend on the enablement
\* settings: under every settings state, a disabled tool included, a call
\* takes the path its name and arguments alone determine.
C21_ExecutionIgnoresSettings ==
    [][ execLog' # execLog =>
          LET e     == execLog'[Len(execLog')]
              calls == SubSeq(outbound', Len(outbound) + 1, Len(outbound'))
          IN Outcome(e.err, calls) \in EnabledOutcomes(e.name, e.arguments)
      ]_vars

C21_Witness ==
    /\ toolSettings = [EnableWebSearch |-> FALSE, EnableFeeds |-> FALSE,
                       EnableSentinel |-> FALSE]
    /\ Len(reqTools) = 1 /\ reqTools[1].name = "web_search"
    /\ Len(execLog) = 1
    /\ execLog[1].name = "web_search"
    /\ execLog[1].err = ""
    /\ outbound = <<"searchClient">>

\* the logged calls that reach a handler: the arguments parse, the name is known
Handled(name) ==
    { i \in 1..Len(execLog) :
        /\ execLog[i].name = name
        /\ ParsesIntoMap(execLog[i].arguments) }

\* the handled calls that lack the field
Lacking(name, fields) ==
    { i \in Handled(name) : FieldsOf(execLog[i].arguments) \cap fields = {} }

\* what the handlers other than get_news do with a missing or unknown field
RejectsWithoutRequired ==
    /\ \A i \in Lacking("web_search", {"q"}) :
          execLog[i].err = "query parameter is required"
    /\ \A i \in Lacking("analyze_portfolio", {"y", "z"}) :
          execLog[i].err = "query_type is required"
    /\ \A i \in Handled("analyze_portfolio") :
          FieldsOf(execLog[i].arguments) \cap {"y", "z"} = {"z"}
              => execLog[i].err = "unknown query_type"

ReachBackend ==
    (Handled("web_search") \ Lacking("web_search", {"q"}))
        \cup Handled("get_news")
        \cup (Handled("analyze_portfolio") \ Lacking("analyze_portfolio", {"y"}))

InvalidInbound ==
    /\ pc # "recv"
    /\ (~inbound.bodyOK \/ inbound.model = "" \/ inbound.messages = <<>>)

\* C23: a request with an invalid body, an empty model or an empty messages
\* list is rejected with status 400 before streaming starts: the adapter is
\* never invoked, no tool is listed or executed, no frame is written.
C23_InvalidRequestRejected ==
    InvalidInbound =>
        /\ status = 400
        /\ pc = "rejected"
        /\ adapter = "none" /\ streamLog = <<>> /\ produced = << <<>>, <<>> >>
        /\ reqTools = <<>> /\ toolCalls = <<>>
        /\ execLog = <<>> /\ outbound = <<>>
        /\ frames = <<>>

C23_Witness ==
    /\ pc = "rejected"
    /\ status = 400
    /\ inbound.bodyOK /\ inbound.model = "m" /\ inbound.messages = <<>>
    /\ frames = <<>>

\* C24: Get running concurrently with Set or Load returns the complete
\* settings as they were after some whole update (or before the first), never
\* a mixture of two updates, so the tool list built from it reflects one
\* consistent settings state.
C24_GetIsNeverTorn ==
    /\ getter.returned # <<>> =>
          /\ getter.returned[1] \in committed
          /\ \E s \in committed : ListsEnabled(s, reqTools)
    /\ getter.pc = "unlock" =>
          /\ getter.copy = toolSettings
          /\ toolSettings \in committed

C24_Witness ==
    /\ setter.pc \in {"feeds", "sentinel"}
    /\ toolSettings \notin committed
    /\ getter.returned # <<>>
    /\ getter.returned[1] # NewToolSettings
    /\ getter.returned[1] # setter.val

\* this step calls ChatStream
CallsChatStream == Len(streamLog') = Len(streamLog) + 1

\* C25: at the start of every round, the first and each resumed one, the
\* enabled tool descriptors are recomputed from the current settings and
\* attached to the round's request.
C25_ToolsFreshEachRound ==
    [][ CallsChatStream => ListsEnabled(toolSettings, reqTools') ]_vars

\* C25, amended: the descriptors are computed once, from the settings as they
\* are when the first round starts; the resumed round's request carries that
\* same list, whatever the settings have become since.
C25_ToolsComputedOnce ==
    [][ /\ (CallsChatStream /\ streamLog = <<>>)
            => ListsEnabled(toolSettings, reqTools')
        /\ streamLog # <<>> => reqTools' = reqTools
      ]_vars

C25_Witness ==
    /\ pc = "r2"
    /\ Round = 2
    /\ Len(reqTools) = 1 /\ reqTools[1].name = "web_search"
    /\ toolSettings.EnableFeeds /\ toolSettings.EnableSentinel

\* the position of the first delta that carries the id
FirstArrival(ds, id) ==
    CHOOSE j \in 1..Len(ds) :
        ds[j].id = id /\ \A i \in 1..(j - 1) : ds[i].id # id

\* the ids of the sequence come in the order in which they first arrived
InArrivalOrder(ids) ==
    LET ds == DeltasOf(produced[1]) IN
    \A i, j \in 1..Len(ids) :
        i < j => FirstArrival(ds, ids[i]) < FirstArrival(ds, ids[j])

\* the tool-role messages of the history, in order
ToolMessages == SelectSeq(history, LAMBDA m : m.role = "tool")

\* C26: for a given sequence of adapter events the records of the assistant
\* message's tool_calls and the tool-role messages appended to the history
\* come in one order in every run, the order in which the call ids first
\* arrived.
C26_TranscriptInArrivalOrder ==
    /\ InArrivalOrder([i \in 1..Len(toolCalls) |-> toolCalls[i].id])
    /\ \A k \in CallingMessages :
          InArrivalOrder([i \in 1..Len(history[k].toolCalls) |->
                              history[k].toolCalls[i].id])
    /\ InArrivalOrder([i \in 1..Len(ToolMessages) |-> ToolMessages[i].toolCallId])

\* the step ends a tool call that was out when the context was cancelled
EndsCancelledCall == pc = "calling" /\ ctxDone /\ Len(execLog') = Len(execLog) + 1

Forwardable(evs) ==
    SelectSeq(evs, LAMBDA e : e.content # <<>> \/ e.toolCalls # <<>>)

\* the texts of a sequence of events, joined
Joined(evs) ==
    LET J[i \in 0..Len(evs)] == IF i = 0 THEN <<>> ELSE J[i - 1] \o evs[i].content
    IN J[Len(evs)]

\* C28: the adapter's events go through a channel of capacity 10 with
\* blocking sends: the channel never holds more than 10 events, and with a
\* consumer that keeps reading, what the consumer has taken followed by what
\* waits in the channel is what the adapter sent: no event is dropped,
\* doubled or out of place, and the consumer ends on the terminating event.
C28_ChannelDeliversEachEventOnce ==
    (adapter # "none" /\ Len(streamLog) = 1) =>
       /\ Len(chan) <= 10
       /\ frames \o Forwardable(chan) = Forwardable(produced[1])
       /\ assistantContent \o Joined(chan) = Joined(produced[1])
       /\ \A i \in 1..Len(produced[1]) :
             produced[1][i].done => i = Len(produced[1])
       /\ pc = "done" =>
             /\ chan = <<>>
             /\ frames = Forwardable(produced[1])
             /\ \/ ended = <<"closed">>
                \/ /\ produced[1] # <<>>
                   /\ produced[1][Len(produced[1])].done
                   /\ ended = << EndOf(produced[1][Len(produced[1])]) >>

\* the consumer has read one event, the buffer is full again and the adapter
\* waits with a line in hand
C28_Witness ==
    /\ pc = "r1"
    /\ adapter = "running"
    /\ linesLeft > 0
    /\ Len(chan) = 10
    /\ Len(frames) = 1
    /\ Len(produced[1]) = 11
    /\ chan[1] # chan[2]

\* the events sent for the lines taken so far, in order
SentFor(n) ==
    LET S[i \in 0..n] == IF i = 0 THEN <<>> ELSE S[i - 1] \o scanned[i].sent
    IN S[n]

\* the line ends the stream: a finish_reason that is not null, the [DONE]
\* line, or an error
EndsStream(line) ==
    \/ line.kind = "chunk" /\ line.chunk.finish # <<>>
    \/ line.kind \in {"done_marker", "bad_json", "read_error"}

\* C29: an event has done=false and an empty done_reason for every frame
\* whose finish_reason is absent or null; it has done=true exactly for a frame
\* with a non-null finish_reason, with done_reason set to that value, for the
\* [DONE] line and for an error event.
C29_DoneFollowsFinishReason ==
    /\ SentFor(Len(scanned)) = produced[1]
    /\ \A i \in 1..Len(scanned) :
          LET line == scanned[i].line IN
          \A j \in 1..Len(scanned[i].sent) :
             LET e == scanned[i].sent[j] IN
             /\ e.done <=> EndsStream(line)
             /\ (line.kind = "chunk" /\ line.chunk.finish = <<>>) =>
                   ~e.done /\ e.doneReason = "" /\ e.error = ""
             /\ (line.kind = "chunk" /\ line.chunk.finish # <<>>) =>
                   e.done /\ e.doneReason = line.chunk.finish[1] /\ e.error = ""
             /\ line.kind = "done_marker" =>
                   e.done /\ e.doneReason = "" /\ e.error = ""
             /\ line.kind \in {"bad_json", "read_error"} =>
                   e.done /\ e.doneReason = "" /\ e.error # ""

\* a text chunk without finish_reason, then a chunk whose finish_reason is the
\* empty string
C29_Witness ==
    /\ Len(scanned) = 2
    /\ Len(produced[1]) = 2
    /\ scanned[1].line.kind = "chunk" /\ scanned[1].line.chunk.finish = <<>>
    /\ scanned[2].line.kind = "chunk" /\ scanned[2].line.chunk.finish = <<"">>
    /\ ~produced[1][1].done /\ produced[1][1].doneReason = ""
    /\ produced[1][2].done /\ produced[1][2].doneReason = ""

\* C30: whenever the request of a round carries a non-empty list of tool
\* descriptors, the call sent to the inference backend includes those
\* descriptors together with model, messages and stream=true.
C30_ToolsSentToBackend ==
    (reqTools # <<>> /\ adapter # "none") =>
       \A i \in 1..Len(posted) :
          /\ "tools" \in DOMAIN posted[i]
          /\ posted[i].tools = reqTools
          /\ posted[i].model = inbound.model
          /\ posted[i].messages = streamLog[i]
          /\ posted[i].stream = TRUE

\* C30, amended: the body sent to the inference backend has model, messages
\* and stream=true and nothing else; the tool descriptors of the request are
\* never part of it, whether the list is empty or not.
C30_ToolsKeptFromBackend ==
    /\ Len(posted) = Len(streamLog)
    /\ \A i \in 1..Len(posted) :
          /\ DOMAIN posted[i] = {"model", "messages", "stream"}
          /\ posted[i].model = inbound.model
          /\ posted[i].messages = streamLog[i]
          /\ posted[i].stream = TRUE

\* both rounds were opened with three descriptors on the request
C30_Witness ==
    /\ Len(reqTools) = 3
    /\ Len(posted) = 2
    /\ pc = "r2"
    /\ "tools" \notin DOMAIN posted[1]
    /\ "tools" \notin DOMAIN posted[2]

\* the step is a call of ChatStream that gives a stream
OpensRound == Len(streamLog') = Len(streamLog) + 1 /\ pc' \in {"r1", "r2"}

\* C31: one deadline, made once when the request is accepted, governs the
\* whole conversation: the signal, once given, stays given through the first
\* round, the tools and the resumed round; no round is opened after it, and
\* a loop that is left on it writes the cancellation frame.
C31_OneDeadlineForAllRounds ==
    [][ /\ ctxDone => ctxDone'
        /\ ctxDone => ~OpensRound
        /\ (ctxDone /\ pc = "r2open" /\ pc' # pc) =>
              /\ pc' = "done"
              /\ frames' = Append(frames, FailedFinalFrame)
        /\ (pc \in {"r1", "r2"} /\ Len(ended') = Len(ended) + 1
              /\ ended'[Len(ended')] = "cancelled") => ctxDone
      ]_vars

\* the deadline passed while the tools ran, and the resumed round found it
\* passed
C31_Witness ==
    /\ ctxDone
    /\ pc = "done"
    /\ Len(streamLog) = 2
    /\ Len(execLog) >= 1
    /\ produced[2] = <<>>
    /\ frames # <<>> /\ frames[Len(frames)] = FailedFinalFrame

\* the cancellation frames among the frames
CancellationFrames(fs) == { i \in 1..Len(fs) : fs[i] = CancelledFrame }

\* C32: when cancellation or the deadline fires while the tools are being
\* executed, the conversation ends with exactly one cancellation frame, which
\* is the last frame, and no event of a later round is forwarded.
C32_CancelWhileExecutingTools ==
    [][ (ctxDone /\ pc = "r2open" /\ pc' = "done") =>
            /\ CancellationFrames(frames') = { Len(frames') }
            /\ produced'[2] = <<>>
      ]_vars

\* C33: each content delta and each tool-call delta is written to the client
\* before the next adapter event is taken: at every moment the deltas among
\* the frames are the deltas among the events taken so far, in order; none
\* waits for the completion event of its round.
C33_DeltasRelayedAtOnce ==
    Forwardable(ForwardedFrames) =
        Forwardable(Consumed(1)) \o Forwardable(Consumed(2))

\* a text delta and a tool-call delta are with the client while the first
\* round still runs
C33_Witness ==
    /\ pc = "r1"
    /\ ended = <<>>
    /\ chan = <<>>
    /\ adapter = "running"
    /\ Len(frames) = 2
    /\ frames[1].content # <<>>
    /\ frames[2].toolCalls # <<>>
    /\ ~frames[1].done /\ ~frames[2].done

RECURSIVE LastTypeFor(_, _)
\* the last non-empty type of the deltas that carry the id
LastTypeFor(ds, id) ==
    IF ds = <<>> THEN ""
    ELSE LET d == ds[Len(ds)] IN
         IF d.id = id /\ d.type # "" THEN d.type
         ELSE LastTypeFor(SubSeq(ds, 1, Len(ds) - 1), id)

\* a delta of the round is an argument fragment without id and name
HasLooseFragment(ds) ==
    \E j \in 1..Len(ds) : ds[j].id = "" /\ ds[j].name = "" /\ ds[j].args # <<>>

\* C34: the record of an id has as type and function name the last non-empty
\* value a delta with that id carried, and as arguments the fragments of the
\* deltas with that id, joined in arrival order (among them, in their place,
\* any id-less fragment the record took); an empty field in a later delta
\* erases nothing.
C34_RecordIsLastValuesAndAllFragments ==
    LET ds == DeltasOf(produced[1]) IN
    \A k \in DOMAIN toolCallsMap :
       LET rec == toolCallsMap[k] IN
       /\ rec.type = LastTypeFor(ds, k)
       /\ rec.name = LastNameFor(ds, k)
       /\ IsSubseq(FragmentsFor(ds, k), rec.args)
       /\ ~HasLooseFragment(ds) => rec.args = FragmentsFor(ds, k)

\* id "a": name f, fragment x with empty type and name, then type and name
\* replaced and fragment w
C34_Witness ==
    /\ DeltasOf(produced[1]) =
           << Delta("a", "function", "f", <<>>), Delta("a", "", "", <<"x">>),
              Delta("a", "tool", "k", <<"w">>), Delta("a", "", "", <<"x">>) >>
    /\ toolCallsMap["a"] = Delta("a", "tool", "k", <<"x", "w", "x">>)

\* C35: after cancellation, deadline expiry, client disconnect or any other
\* early return of the orchestrator, the adapter task of the round that was
\* left ends and closes its channel; it does not stay blocked on a send that
\* nobody receives.
C35_AbandonedAdapterEnds ==
    (pc = "done" /\ adapter = "running") ~> (adapter = "closed")

\* the texts, call ids and tool names that belong to the conversation of r
OwnTokens(r) ==
    IF r = 1 THEN {"one", "uno", "a", "web_search", "Search results for '",
                   "search failed"}
    ELSE {"two", "due", "b", "get_news", "Latest ", "failed to fetch news"}

\* the texts, ids and names a message carries
TokensOfMessage(msg) ==
    { msg.content[i] : i \in 1..Len(msg.content) }
        \cup { msg.toolCallId }
        \cup { msg.toolCalls[i].id : i \in 1..Len(msg.toolCalls) }
        \cup { msg.toolCalls[i].name : i \in 1..Len(msg.toolCalls) }

\* the texts, ids and names a frame carries
TokensOfFrame(f) ==
    { f.content[i] : i \in 1..Len(f.content) }
        \cup { f.toolCalls[i].id : i \in 1..Len(f.toolCalls) }
        \cup { f.toolCalls[i].name : i \in 1..Len(f.toolCalls) }

\* everything request r holds or has handed on
TokensOf(r) ==
    LET me == peers[r] IN
    UNION { TokensOfMessage(me.history[i]) : i \in 1..Len(me.history) }
      \cup UNION { TokensOfFrame(me.frames[i]) : i \in 1..Len(me.frames) }
      \cup UNION { UNION { TokensOfMessage(me.streamLog[j][i]) :
                             i \in 1..Len(me.streamLog[j]) } :
                   j \in 1..Len(me.streamLog) }
      \cup { me.assistantContent[i] : i \in 1..Len(me.assistantContent) }
      \cup { k : k \in DOMAIN me.toolCallsMap }
      \cup { me.toolCallsMap[k].name : k \in DOMAIN me.toolCallsMap }
      \cup { me.execLog[i].name : i \in 1..Len(me.execLog) }

\* C36: two chat requests served at the same time share no accumulator and no
\* history: the tool-call records, the text and the messages of one never
\* show in the history, the executor calls or the frames of the other.
C36_RequestsShareNothing ==
    \A r \in Requests :
       \A o \in Requests \ {r} : TokensOf(r) \cap OwnTokens(o) = {}

\* both conversations ran their tool and were resumed
C36_Witness ==
    /\ \A r \in Requests :
          /\ peers[r].pc = "done"
          /\ Len(peers[r].execLog) = 1
          /\ Len(peers[r].streamLog) = 2
          /\ peers[r].assistantContent # <<>>
    /\ peers[1].execLog[1].name = "web_search"
    /\ peers[2].execLog[1].name = "get_news"

\* the keys whose record the step changed
ChangedKeys == { k \in DOMAIN toolCallsMap : toolCallsMap'[k] # toolCallsMap[k] }

\* C37: every record of the accumulator is stored under a non-empty key that
\* is its own id; a delta with an empty id creates no record; an id-less
\* argument fragment is appended to at most one record, one that has both id
\* and name, and changes nothing when there is no such record.
C37_AccumulatorKeysAndLooseFragments ==
    [][ LET ds2 == DeltasOf(produced'[1])
            d   == ds2[Len(ds2)]
        IN Len(ds2) = Len(DeltasOf(produced[1])) + 1 =>
           /\ \A k \in DOMAIN toolCallsMap' : k # "" /\ toolCallsMap'[k].id = k
           /\ d.id = "" =>
                /\ DOMAIN toolCallsMap' = DOMAIN toolCallsMap
                /\ Cardinality(ChangedKeys) <= 1
                /\ \A k \in ChangedKeys :
                      /\ toolCallsMap[k].id # "" /\ toolCallsMap[k].name # ""
                      /\ d.args # <<>>
                      /\ toolCallsMap'[k] =
                            [toolCallsMap[k] EXCEPT !.args = @ \o d.args]
                /\ (\A k \in DOMAIN toolCallsMap :
                        toolCallsMap[k].id = "" \/ toolCallsMap[k].name = "")
                      => toolCallsMap' = toolCallsMap
      ]_vars

\* a record without a name, a record with one, and a loose fragment that
\* went to the second
C37_Witness ==
    /\ DeltasOf(produced[1]) =
           << Delta("b", "", "", <<>>), Delta("a", "function", "f", <<>>),
              Delta("", "", "", <<"x">>) >>
    /\ toolCallsMap["a"].args = <<"x">>
    /\ toolCallsMap["b"] = Delta("b", "", "", <<>>)

\* the sub-analysis behind a section succeeds: the calls it cannot do without
SectionNeeds ==
    [ps |-> {"GetPortfolioSummary", "GetPositions"},
     to |-> {"GetAllOpportunities"},
     ra |-> {"GetPortfolioRisk"},
     mc |-> {"GetMarketContext"}]

SectionHeading ==
    [ps |-> "## Portfolio State", to |-> "## Trading Opportunities",
     ra |-> "## Risk Assessment", mc |-> "## Market Context"]

\* how often the token stands in the text
Occurrences(text, token) == Cardinality({ i \in 1..Len(text) : text[i] = token })

\* C38: analyze_portfolio with query_type full_analysis never returns an
\* error: each of the four sections is in the result exactly when its
\* sub-analysis succeeded, once, and a sub-analysis whose upstream call
\* failed is left out without failing the call.
C38_FullAnalysisKeepsWhatSucceeded ==
    \A i \in 1..Len(execLog) :
       LET text == history[i].content IN
       /\ execLog[i].err = ""
       /\ history[i].role = "tool"
       /\ text[1] = "# Complete Portfolio Analysis"
       /\ \A sec \in DOMAIN SectionNeeds :
             Occurrences(text, SectionHeading[sec]) =
                 IF SectionNeeds[sec] \cap execLog[i].down = {} THEN 1 ELSE 0

\* the positions and the risk metrics cannot be had: two sections are left
\* out, two are there, no error
C38_Witness ==
    /\ Len(execLog) = 1
    /\ execLog[1].down = {"GetPositions", "GetPortfolioRisk"}
    /\ execLog[1].err = ""
    /\ history[1].content =
          << "# Complete Portfolio Analysis",
             "## Trading Opportunities", "# Trading Opportunities", "Recommendations",
             "## Market Context", "# Market Context" >>

\* the frames the page got that carry an error
ErrorFramesGot == { i \in 1..Len(ui.got) : ui.got[i].error # "" }

\* C39: when the server sends a frame that carries an error, sendMessage
\* stops treating the stream as an answer and shows the error in the
\* assistant message; and on every way out, isStreaming is false again and
\* the input is enabled again.
C39_ErrorFrameShownAndInputFreed ==
    /\ \A i \in ErrorFramesGot :
          /\ ui.pc = "finished"
          /\ ui.errorClass
          /\ ui.textContent = <<"Error: ", ui.got[i].error>>
          /\ Len(ui.got) = i
    /\ ui.pc = "finished" => ~ui.isStreaming /\ ~ui.inputDisabled

\* every goroutine has called Set, and every call has returned nil
AllSetsSucceeded ==
    \A g \in Setters :
        /\ saves.call[g].pc = "idle"
        /\ saves.call[g].n > 0
        /\ ~saves.call[g].err

\* C40: after calls of ToolSettings.Set that ran at the same time have all
\* returned without error, the settings file holds the settings that are in
\* memory.
C40_FileEqualsMemoryAfterSets ==
    AllSetsSucceeded => saves.file = << toolSettings >>

====
